---- MODULE Spec2Model ----
(***************************************************************************)
(* A model of the monadic containers of @7urtle/lambda: Maybe, Either,     *)
(* SyncEffect and AsyncEffect, with the helpers they are built on          *)
(* (isNothing, reduce, nary).  JavaScript values are records tagged by a   *)
(* field t; a function value is a record naming its code and holding the   *)
(* variables it closes over, and Call interprets it.  Every evaluation     *)
(* threads a runtime record (the log of the calls of caller-supplied       *)
(* functions, the caller's counter, ...) and ends in a completion: a       *)
(* returned value or a thrown one.                                         *)
(***************************************************************************)
EXTENDS Integers, Sequences, FiniteSets, TLC

VARIABLES
  pc,     \* the operation that produced the current state
  box,    \* the container (or raw value) the caller currently holds
  prev,   \* [box, st]: the container and the runtime before the last operation
  arg,    \* the argument(s) of the last operation
  ctor,   \* [name, x]: how the first container of the chain was built
  ret,    \* the completion of the last operation
  st,     \* the runtime: log of caller-supplied function calls, counter,
          \* timers, promise jobs, promises
  steps,    \* number of operations applied since construction
  triggers, \* number of evaluations the caller started with trigger
  promised  \* number of evaluations the caller started with promise

vars == <<pc, box, prev, arg, ctor, ret, st, steps, triggers, promised>>

\* The longest chain of map/flatMap/ap the model builds.
MaxChain == 2

-----------------------------------------------------------------------------
(* JavaScript values *)

Null == [t |-> "null"]
Undef == [t |-> "undefined"]
Num(n) == [t |-> "number", n |-> n]
Bool(b) == [t |-> "boolean", b |-> b]
Str(s) == [t |-> "string", s |-> s]
Arr(items) == [t |-> "array", items |-> items]
\* props: the own properties, a sequence of <<name, value>> pairs.
Obj(cls, props) == [t |-> "object", cls |-> cls, props |-> props]
\* len: the declared parameter count (fn.length); env: the variables closed over.
Fn(name, len, env) == [t |-> "function", name |-> name, len |-> len, env |-> env]

TypeError(msg) == [t |-> "error", cls |-> "TypeError", message |-> msg]
\* new Error(msg)
Error(msg) == [t |-> "error", cls |-> "Error", message |-> msg]

\* The runtime before anything ran.
St0 ==
  [count |-> 0,       \* the caller's counter
   log |-> <<>>,      \* the calls of caller-supplied functions, in order
   timers |-> <<>>,   \* the functions setTimeout holds
   jobs |-> <<>>,     \* the promise jobs (microtasks) waiting, first in first out
   promises |-> <<>>, \* the promises created; a Promise value names one by index
   uncaught |-> <<>>] \* what was thrown out of a timer

\* Completions: a value returned, or a value thrown.
Ret(v, s) == [v |-> v, ex |-> FALSE, st |-> s]
Throw(v, s) == [v |-> v, ex |-> TRUE, st |-> s]

\* A missing argument reads as undefined.
Arg(args, i) == IF i <= Len(args) THEN args[i] ELSE Undef

\* F applied to the value of x, which is evaluated once.
Bind(x, F(_)) == CHOOSE y \in {F(v) : v \in {x}} : TRUE

\* The completion r, or what Next makes of it when it returned.
Then(x, Next(_)) == Bind(x, LAMBDA r : IF r.ex THEN r ELSE Next(r))

-----------------------------------------------------------------------------
(* utils.js, conditional.js *)

typeOf(a) ==
  CASE a.t = "undefined" -> "undefined"
    [] a.t \in {"number", "boolean", "string", "function"} -> a.t
    [] OTHER -> "object"

OwnProp(a, name) ==
  IF \E i \in 1..Len(a.props) : a.props[i][1] = name
  THEN a.props[CHOOSE i \in 1..Len(a.props) : a.props[i][1] = name][2]
  ELSE Undef

\* a.length: strings, arrays and functions have one; a plain object has one
\* only as an own property; numbers, booleans and the containers have none.
lengthOf(a) ==
  CASE a.t = "string" -> Num(Len(a.s))
    [] a.t = "array" -> Num(Len(a.items))
    [] a.t = "function" -> Num(a.len)
    [] a.t = "object" -> OwnProp(a, "length")
    [] OTHER -> Undef

\* === on primitives.
isEqual(a, b) == a = b

isTypeOf(a, b) == typeOf(b) = a

isNull(a) == isEqual(Null, a)

isUndefined(a) == isTypeOf("undefined", a)

isObject(a) == isTypeOf("object", a)

isFunction(a) == isTypeOf("function", a)

isLength(a, b) == isEqual(lengthOf(b), a)

\* Object.getOwnPropertyNames(a), for the values typeof calls "object".
getOwnPropertyNames(a) ==
  CASE a.t = "object" -> Arr([i \in 1..Len(a.props) |-> Str(a.props[i][1])])
    [] a.t = "array" ->
         Arr([i \in 1..(Len(a.items) + 1) |->
                IF i <= Len(a.items) THEN Str("index") ELSE Str("length")])
    [] a.t \in {"Nothing", "Just", "Failure", "Success"} ->
         Arr(<<Str("value"), Str("inspect"), Str("isFirst"), Str("isSecond"),
               Str("map"), Str("flatMap"), Str("ap")>>)
    [] a.t = "SyncEffect" ->
         Arr(<<Str("trigger"), Str("inspect"), Str("map"), Str("flatMap"), Str("ap")>>)
    [] a.t = "AsyncEffect" ->
         Arr(<<Str("trigger"), Str("inspect"), Str("promise"), Str("map"),
               Str("flatMap"), Str("ap")>>)
    [] OTHER -> Arr(<<Str("own")>>)

isEmpty(anything) ==
  \/ isLength(Num(0), anything)
  \/ IF isObject(anything)
     THEN isLength(Num(0), getOwnPropertyNames(anything))
     ELSE FALSE

isNothing(anything) ==
  isNull(anything) \/ isUndefined(anything) \/ isEmpty(anything)

-----------------------------------------------------------------------------
(* Maybe.js, Either.js: the variants *)

Nothing == [t |-> "Nothing", value |-> Null]

Just(value) == [t |-> "Just", value |-> value]

Maybe_of(value) == IF isNothing(value) THEN Nothing ELSE Just(value)

Failure(value) == [t |-> "Failure", value |-> value]

Success(value) == [t |-> "Success", value |-> value]

Either_of(value) == Success(value)

IsContainer(c) == c.t \in {"Nothing", "Just", "Failure", "Success"}

-----------------------------------------------------------------------------
(* JavaScript's + and the string conversion it uses *)

RECURSIVE NumberToString(_)
RECURSIVE JSString(_)
RECURSIVE Join(_, _)

Digit(d) == <<"0", "1", "2", "3", "4", "5", "6", "7", "8", "9">>[d + 1]

NumberToString(n) ==
  IF n < 0 THEN "-" \o NumberToString(0 - n)
  ELSE IF n < 10 THEN Digit(n)
  ELSE NumberToString(n \div 10) \o Digit(n % 10)

NaN == [t |-> "number", nan |-> TRUE]

IsNaN(a) == a.t = "number" /\ "nan" \in DOMAIN a

\* items.join(","): null and undefined elements read as the empty string.
Join(items, i) ==
  IF i > Len(items) THEN ""
  ELSE (IF i > 1 THEN "," ELSE "")
       \o (IF items[i].t \in {"null", "undefined"} THEN "" ELSE JSString(items[i]))
       \o Join(items, i + 1)

\* String(a).  The text of a function is its source; the model writes the
\* name of its code for it.
JSString(a) ==
  CASE a.t = "undefined" -> "undefined"
    [] a.t = "null" -> "null"
    [] a.t = "boolean" -> IF a.b THEN "true" ELSE "false"
    [] a.t = "number" -> IF IsNaN(a) THEN "NaN" ELSE NumberToString(a.n)
    [] a.t = "string" -> a.s
    [] a.t = "array" -> Join(a.items, 1)
    [] a.t = "function" -> a.name
    [] a.t = "error" -> a.cls \o ": " \o a.message
    [] OTHER -> "[object Object]"

\* Number(a), for the primitives that are no strings.
ToNumber(a) ==
  CASE a.t = "number" -> a
    [] a.t = "null" -> Num(0)
    [] a.t = "boolean" -> Num(IF a.b THEN 1 ELSE 0)
    [] OTHER -> NaN

\* a + b
Plus(a, b) ==
  IF a.t \in {"number", "null", "undefined", "boolean"}
     /\ b.t \in {"number", "null", "undefined", "boolean"}
  THEN IF IsNaN(ToNumber(a)) \/ IsNaN(ToNumber(b)) THEN NaN
       ELSE Num(ToNumber(a).n + ToNumber(b).n)
  ELSE Str(JSString(a) \o JSString(b))

-----------------------------------------------------------------------------
(* Calls and method calls: declared here, defined below *)

RECURSIVE Call(_, _, _)
RECURSIVE Method(_, _, _, _)
RECURSIVE ArrayReduce(_, _, _, _, _)
RECURSIVE NaryReduce(_, _, _)
RECURSIVE MapPromise(_, _, _)

-----------------------------------------------------------------------------
(* Promises, as the JavaScript runtime implements them *)

PromiseRef(id) == [t |-> "Promise", id |-> id]

\* The resolving functions of promise id.
promiseResolve(id) == Fn("promiseResolve", 1, <<Num(id)>>)
promiseReject(id) == Fn("promiseReject", 1, <<Num(id)>>)

\* A new pending promise; its index is Len(s.promises) + 1.
NewPromise(s) ==
  [s EXCEPT !.promises =
     Append(@, [state |-> "pending", value |-> Undef, reactions |-> <<>>,
                locked |-> FALSE, vals |-> <<>>, remaining |-> 0])]

Reaction(kind, onFulfilled, onRejected, target, index) ==
  [kind |-> kind, onFulfilled |-> onFulfilled, onRejected |-> onRejected,
   target |-> target, index |-> index]

Job(reaction, state, value) == [reaction |-> reaction, state |-> state, value |-> value]

\* A pending promise settles: its reactions become jobs.
SettlePromise(s, id, state, value) ==
  LET p == s.promises[id]
  IN  IF p.state # "pending" THEN s
      ELSE [s EXCEPT
              !.promises[id] = [p EXCEPT !.state = state, !.value = value,
                                         !.reactions = <<>>],
              !.jobs = @ \o [i \in 1..Len(p.reactions) |->
                               Job(p.reactions[i], state, value)]]

\* The resolve function of a promise: a second call does nothing; a promise
\* as the value is adopted in a job of its own.
ResolvePromise(s, id, x) ==
  LET p == s.promises[id]
  IN  IF p.locked \/ p.state # "pending" THEN s
      ELSE IF x.t = "Promise"
      THEN [s EXCEPT !.promises[id].locked = TRUE,
                     !.jobs = Append(@, Job(Reaction("thenable", Undef, Undef, id, 0),
                                            "fulfilled", x))]
      ELSE SettlePromise(s, id, "fulfilled", x)

\* The reject function of a promise.
RejectPromise(s, id, x) ==
  LET p == s.promises[id]
  IN  IF p.locked \/ p.state # "pending" THEN s
      ELSE SettlePromise(s, id, "rejected", x)

\* A reaction is attached to promise id: it waits, or is a job at once.
Subscribe(s, id, reaction) ==
  LET p == s.promises[id]
  IN  IF p.state = "pending"
      THEN [s EXCEPT !.promises[id].reactions = Append(@, reaction)]
      ELSE [s EXCEPT !.jobs = Append(@, Job(reaction, p.state, p.value))]

\* p.then(onFulfilled, onRejected); p.catch(h) is p.then(undefined, h).
PromiseThen(p, onFulfilled, onRejected, s) ==
  IF p.t # "Promise" THEN Throw(TypeError("then is not a function"), s)
  ELSE LET s1 == NewPromise(s)
           d == Len(s1.promises)
       IN  Ret(PromiseRef(d),
               Subscribe(s1, p.id, Reaction("then", onFulfilled, onRejected, d, 0)))

\* Promise.all(ps): fulfilled with the values in the order of ps once every
\* element is fulfilled, rejected with the reason of the first rejection.
PromiseAll(ps, s) ==
  LET s1 == NewPromise(s)
      a == Len(s1.promises)
      s2 == [s1 EXCEPT !.promises[a].vals = [i \in 1..Len(ps) |-> Undef],
                       !.promises[a].remaining = Len(ps)]
      Sub[i \in 0..Len(ps)] ==
        IF i = 0 THEN s2
        ELSE Subscribe(Sub[i - 1], ps[i].id, Reaction("all", Undef, Undef, a, i))
  IN  IF Len(ps) = 0
      THEN Ret(PromiseRef(a), ResolvePromise(s2, a, Arr(<<>>)))
      ELSE Ret(PromiseRef(a), Sub[Len(ps)])

\* An element of Promise.all (reaction r) settled with value.
PromiseAllElement(s, r, state, value) ==
  LET a == r.target
      p == s.promises[a]
  IN  IF state = "rejected" THEN RejectPromise(s, a, value)
      ELSE LET vals == [p.vals EXCEPT ![r.index] = value]
               s1 == [s EXCEPT !.promises[a].vals = vals,
                               !.promises[a].remaining = @ - 1]
           IN  IF p.remaining = 1 THEN ResolvePromise(s1, a, Arr(vals)) ELSE s1

\* One promise job runs.
RunPromiseJob(job, s) ==
  LET r == job.reaction
      handler == IF job.state = "fulfilled" THEN r.onFulfilled ELSE r.onRejected
  IN  CASE r.kind = "then" ->
             IF ~isFunction(handler)
             THEN IF job.state = "fulfilled"
                  THEN ResolvePromise(s, r.target, job.value)
                  ELSE RejectPromise(s, r.target, job.value)
             ELSE Bind(Call(handler, <<job.value>>, s), LAMBDA c :
                    IF c.ex THEN RejectPromise(c.st, r.target, c.v)
                    ELSE ResolvePromise(c.st, r.target, c.v))
        [] r.kind = "thenable" ->
             Subscribe(s, job.value.id, Reaction("adopt", Undef, Undef, r.target, 0))
        [] r.kind = "adopt" -> SettlePromise(s, r.target, job.state, job.value)
        [] r.kind = "all" -> PromiseAllElement(s, r, job.state, job.value)

-----------------------------------------------------------------------------
(* The effects *)

\* getSyncEffect: trigger => ({trigger, inspect, map, flatMap, ap})
getSyncEffect(trigger) == [t |-> "SyncEffect", trigger |-> trigger]

\* SyncEffect.of: trigger => getSyncEffect(trigger)
SyncEffect_of(trigger) == getSyncEffect(trigger)

\* nary: fn => (...args) => ...
nary(fn) == Fn("nary", 0, <<fn>>)

\* getAsyncEffect: trigger => ({trigger, inspect, promise, map, flatMap, ap})
getAsyncEffect(trigger) == [t |-> "AsyncEffect", trigger |-> trigger]

\* AsyncEffect.of: trigger => getAsyncEffect(nary(reject => resolve => {...}))
AsyncEffect_of(trigger) == getAsyncEffect(nary(Fn("AsyncEffect_of_reject", 1, <<trigger>>)))

\* AsyncEffect.ofPromise:
\*   promise => AsyncEffect.of(reject => resolve => promise().then(resolve).catch(reject))
AsyncEffect_ofPromise(promise) == AsyncEffect_of(Fn("ofPromise_reject", 1, <<promise>>))

\* liftA2 = nary(fn => ap1 => ap2 => ap1.map(fn).ap(ap2))
liftA2 == nary(Fn("liftA2_fn", 1, <<>>))

\* liftA3 = nary(fn => ap1 => ap2 => ap3 => ap1.map(fn).ap(ap2).ap(ap3))
liftA3 == nary(Fn("liftA3_fn", 1, <<>>))

\* mergeAsyncEffects: (...asyncEffects) => AsyncEffect.ofPromise(() => Promise.all(...))
mergeAsyncEffects(asyncEffects) ==
  AsyncEffect_ofPromise(Fn("mergeAsyncEffects_promise", 0, <<Arr(asyncEffects)>>))

-----------------------------------------------------------------------------
(* Caller-supplied functions.  Each is named by its code; Call logs every *)
(* invocation of one of them in st.log before running it.                 *)

identity == Fn("identity", 1, <<>>)          \* anything => anything
wrapArr == Fn("wrapArr", 1, <<>>)            \* a => [a]
constNull == Fn("constNull", 0, <<>>)        \* () => null
fMaybeOf == Fn("fMaybeOf", 1, <<>>)          \* a => Maybe.of(a)
fJustArr == Fn("fJustArr", 1, <<>>)          \* a => Just([a])
fJust == Fn("fJust", 1, <<>>)                \* a => Just(a)
fSuccessArr == Fn("fSuccessArr", 1, <<>>)    \* a => Success([a])
fFailureArr == Fn("fFailureArr", 1, <<>>)    \* a => Failure([a])
pair == Fn("pair", 1, <<>>)                  \* a => b => [a, b]
throwing == Fn("throwing", 0, <<>>)          \* () => { throw 'I am a thrown error.'; }
counter == Fn("counter", 0, <<>>)            \* () => ++count
inc == Fn("inc", 1, <<>>)                    \* x => x + 1
constant(v) == Fn("constant", 0, <<v>>)      \* () => v
\* A function of len parameters that throws e when it is called (stage =
\* "first": () => { throw e; }, (reject, resolve) => { throw e; }) or
\* returns a function that does (reject => resolve => { throw e; }).
thrower(stage, len, e) == Fn("thrower", len, <<Str(stage), e>>)
fSyncOf == Fn("fSyncOf", 1, <<>>)            \* a => SyncEffect.of(() => a)
fSyncInc == Fn("fSyncInc", 1, <<>>)          \* a => SyncEffect.of(() => a + 1)
\* () => SyncEffect.of(() => { throw 'error'; })
fSyncThrow == Fn("fSyncThrow", 0, <<>>)
countArgs == Fn("countArgs", 0, <<>>)        \* (...args) => args.length
\* An asynchronous computation that calls one of its callbacks once with
\* payload, at once or from a timer:
\*   curried:  reject => resolve => resolve(payload)
\*             reject => resolve => setTimeout(() => resolve(payload), 10)
\*   binary:   (reject, resolve) => resolve(payload), ...
\* and the same with reject for resolve.
computation(style, timing, outcome, payload) ==
  Fn("computation", IF style = "binary" THEN 2 ELSE 1,
     <<Str(style), Str(timing), Str(outcome), payload>>)
\* A promise factory: () => Promise.resolve(payload), () => Promise.reject(payload),
\* () => new Promise(resolve => setTimeout(() => resolve(payload), 10)), ...
factory(timing, outcome, payload) ==
  Fn("factory", 0, <<Str(timing), Str(outcome), payload>>)
\* The callbacks given to trigger: both error => {} and result => {}, or
\* both error => error and result => result (returns = "echo"), or
\* () => { throw 'Unexpected success.'; } (returns = "throw").
onReject(returns) == Fn("onReject", 1, <<Str(returns)>>)
onResolve(returns) == Fn("onResolve", 1, <<Str(returns)>>)
invoker == Fn("invoker", 1, <<>>)            \* k => k('again')
\* reject => resolve => { const n = ++count; resolve(n); }, or with
\* setTimeout(() => resolve(n), 10) for resolve(n)
asyncCounter(timing) == Fn("asyncCounter", 1, <<Str(timing)>>)
\* a => AsyncEffect.of(_ => resolve => resolve([a]))
fAsyncArr == Fn("fAsyncArr", 1, <<>>)
\* a => AsyncEffect.of(reject => _ => setTimeout(() => reject([a]), 10))
fAsyncFail == Fn("fAsyncFail", 1, <<>>)
\* () => effect.promise()
promiseOf(effect) == Fn("promiseOf", 0, <<effect>>)
\* A curried function of n unary stages: a => b => a + b, a => b => c =>
\* a + b + c, ...; got holds the arguments of the earlier stages.
curried(n, got) == Fn("curried", 1, <<Num(n), Arr(got)>>)
\* A validation predicate, as in the test of validateEithers:
\*   input => passes(input) ? Success(echo ? input : 'ok' + id) : Failure('fail' + id)
predicate(id, passes, echo) == Fn("predicate", 1, <<Str(id), Arr(passes), Bool(echo)>>)

UserNames ==
  {"identity", "wrapArr", "constNull", "fMaybeOf", "fJustArr", "fJust", "fSuccessArr",
   "fFailureArr", "pair", "pair1", "throwing", "predicate",
   "thrower", "throwerResolve", "curried", "asyncCounter", "asyncCounterResolve",
   "counter", "inc", "constant", "fSyncOf", "fSyncInc", "thunkInc",
   "computation", "computationResolve", "later", "factory", "onReject",
   "onResolve", "invoker", "fAsyncArr", "fAsyncFail", "promiseOf",
   "fSyncThrow", "countArgs"}

\* The body of a computation, once it holds both callbacks; setTimeout
\* returns a timer, which is no function.
Settles(env, reject, resolve, s) ==
  LET callback == IF env[3].s = "reject" THEN reject ELSE resolve
  IN  IF env[2].s = "sync" THEN Call(callback, <<env[4]>>, s)
      ELSE Ret(Obj("Timeout", <<>>),
               [s EXCEPT !.timers = Append(@, Fn("later", 0, <<callback, env[4]>>))])

\* The body of a promise factory.
Promises(env, s) ==
  LET s1 == NewPromise(s)
      id == Len(s1.promises)
      settle == IF env[2].s = "reject" THEN promiseReject(id) ELSE promiseResolve(id)
  IN  IF env[1].s = "sync"
      THEN Ret(PromiseRef(id), Call(settle, <<env[3]>>, s1).st)
      ELSE Ret(PromiseRef(id),
               [s1 EXCEPT !.timers = Append(@, Fn("later", 0, <<settle, env[3]>>))])

RECURSIVE PlusAll(_, _, _)
\* acc + items[i] + ... + items[Len(items)]
PlusAll(items, i, acc) ==
  IF i > Len(items) THEN acc ELSE PlusAll(items, i + 1, Plus(acc, items[i]))

Logged(s, f, args) == [s EXCEPT !.log = Append(@, [f |-> f, a |-> args])]

UserCall(f, args, s) ==
  CASE f.name = "identity" -> Ret(Arg(args, 1), s)
    [] f.name = "wrapArr" -> Ret(Arr(<<Arg(args, 1)>>), s)
    [] f.name = "constNull" -> Ret(Null, s)
    [] f.name = "fMaybeOf" -> Ret(Maybe_of(Arg(args, 1)), s)
    [] f.name = "fJustArr" -> Ret(Just(Arr(<<Arg(args, 1)>>)), s)
    [] f.name = "fJust" -> Ret(Just(Arg(args, 1)), s)
    [] f.name = "fSuccessArr" -> Ret(Success(Arr(<<Arg(args, 1)>>)), s)
    [] f.name = "fFailureArr" -> Ret(Failure(Arr(<<Arg(args, 1)>>)), s)
    [] f.name = "pair" -> Ret(Fn("pair1", 1, <<Arg(args, 1)>>), s)
    [] f.name = "pair1" -> Ret(Arr(<<f.env[1], Arg(args, 1)>>), s)
    [] f.name = "throwing" -> Throw(Str("I am a thrown error."), s)
    [] f.name = "thrower" ->
         IF f.env[1].s = "first" THEN Throw(f.env[2], s)
         ELSE Ret(Fn("throwerResolve", 1, f.env), s)
    [] f.name = "throwerResolve" -> Throw(f.env[2], s)
    [] f.name = "counter" ->
         Ret(Num(s.count + 1), [s EXCEPT !.count = @ + 1])
    [] f.name = "inc" -> Ret(Plus(Arg(args, 1), Num(1)), s)
    [] f.name = "constant" -> Ret(f.env[1], s)
    [] f.name = "fSyncOf" -> Ret(SyncEffect_of(constant(Arg(args, 1))), s)
    [] f.name = "fSyncInc" ->
         Ret(SyncEffect_of(Fn("thunkInc", 0, <<Arg(args, 1)>>)), s)
    [] f.name = "thunkInc" -> Ret(Plus(f.env[1], Num(1)), s)
    [] f.name = "countArgs" -> Ret(Num(Len(args)), s)
    [] f.name = "fSyncThrow" ->
         Ret(SyncEffect_of(thrower("first", 0, Str("error"))), s)
    [] f.name = "computation" ->
         IF f.env[1].s = "binary"
         THEN Settles(f.env, Arg(args, 1), Arg(args, 2), s)
         ELSE Ret(Fn("computationResolve", 1, Append(f.env, Arg(args, 1))), s)
    [] f.name = "computationResolve" -> Settles(f.env, f.env[5], Arg(args, 1), s)
    [] f.name = "later" -> Call(f.env[1], <<f.env[2]>>, s)
    [] f.name = "factory" -> Promises(f.env, s)
    [] f.name \in {"onReject", "onResolve"} ->
         IF f.env[1].s = "throw" THEN Throw(Str("Unexpected success."), s)
         ELSE Ret(IF f.env[1].s = "echo" THEN Arg(args, 1) ELSE Undef, s)
    [] f.name = "asyncCounter" -> Ret(Fn("asyncCounterResolve", 1, f.env), s)
    [] f.name = "asyncCounterResolve" ->
         LET n == Num(s.count + 1)
             s1 == [s EXCEPT !.count = @ + 1]
         IN  IF f.env[1].s = "sync" THEN Call(Arg(args, 1), <<n>>, s1)
             ELSE Ret(Obj("Timeout", <<>>),
                      [s1 EXCEPT !.timers = Append(@, Fn("later", 0, <<Arg(args, 1), n>>))])
    [] f.name = "curried" ->
         LET got == Append(f.env[2].items, Arg(args, 1))
         IN  IF Len(got) < f.env[1].n THEN Ret(curried(f.env[1].n, got), s)
             ELSE Ret(PlusAll(got, 2, got[1]), s)
    [] f.name = "invoker" -> Call(Arg(args, 1), <<Str("again")>>, s)
    [] f.name = "promiseOf" -> Method(f.env[1], "promise", <<>>, s)
    [] f.name = "fAsyncArr" ->
         Ret(AsyncEffect_of(computation("curried", "sync", "resolve",
                                        Arr(<<Arg(args, 1)>>))), s)
    [] f.name = "fAsyncFail" ->
         Ret(AsyncEffect_of(computation("curried", "defer", "reject",
                                        Arr(<<Arg(args, 1)>>))), s)
    [] f.name = "predicate" ->
         IF \E i \in 1..Len(f.env[2].items) : f.env[2].items[i] = Arg(args, 1)
         THEN Ret(Success(IF f.env[3].b THEN Arg(args, 1) ELSE Str("ok" \o f.env[1].s)), s)
         ELSE Ret(Failure(Str("fail" \o f.env[1].s)), s)

-----------------------------------------------------------------------------
(* The methods of the containers *)

\* value.message: reading a property of null or undefined throws.
GetMessage(value, s) ==
  CASE value.t \in {"null", "undefined"} ->
         Throw(TypeError("Cannot read properties of " \o value.t), s)
    [] value.t = "error" -> Ret(Str(value.message), s)
    [] value.t = "object" -> Ret(OwnProp(value, "message"), s)
    [] OTHER -> Ret(Undef, s)

\* What a || b takes for true.
Truthy(a) ==
  CASE a.t \in {"null", "undefined"} -> FALSE
    [] a.t = "boolean" -> a.b
    [] a.t = "number" -> ~IsNaN(a) /\ a.n # 0
    [] a.t = "string" -> a.s # ""
    [] OTHER -> TRUE

\* Either.try: fn => { try { return Success(fn()); }
\*                     catch(error) { return Failure(error.message || error); } }
Either_try(fn, s) ==
  Bind(Call(fn, <<>>, s), LAMBDA r :
    IF ~r.ex THEN Ret(Success(r.v), r.st)
    ELSE Then(GetMessage(r.v, r.st), LAMBDA message :
           Ret(Failure(IF Truthy(message.v) THEN message.v ELSE r.v), message.st)))

\* A map of Nothing that applies the transform to the value Nothing holds.
Nothing_map_applies(fn, s) ==
  Then(Call(fn, <<Null>>, s), LAMBDA r : Ret(Maybe_of(r.v), r.st))

\* Nothing: map, flatMap and ap are () => Nothing.
Nothing_map(fn, s) == Ret(Nothing, s)

Nothing_flatMap(fn, s) == Ret(Nothing, s)

Nothing_ap(f, s) == Ret(Nothing, s)

\* A map that wraps the transform's result without classifying it.
Just_map_raw(value, fn, s) ==
  Then(Call(fn, <<value>>, s), LAMBDA r : Ret(Just(r.v), r.st))

\* Just(value).map: fn => Maybe.of(fn(value))
Just_map(value, fn, s) ==
  Then(Call(fn, <<value>>, s), LAMBDA r : Ret(Maybe_of(r.v), r.st))

\* A flatMap that wraps its result the way map does.
Just_flatMap_wraps(value, fn, s) ==
  Then(Call(fn, <<value>>, s), LAMBDA r : Ret(Just(r.v), r.st))

\* Just(value).flatMap: fn => fn(value)
Just_flatMap(value, fn, s) == Call(fn, <<value>>, s)

\* Just(value).ap: f => f.map(value)
Just_ap(value, f, s) == Method(f, "map", <<value>>, s)

\* Failure(value): map, flatMap and ap are () => Failure(value).
Failure_map(value, fn, s) == Ret(Failure(value), s)

\* A Failure that runs the transform on its payload, as Success does.
Failure_flatMap_applies(value, fn, s) == Call(fn, <<value>>, s)

Failure_flatMap(value, fn, s) == Ret(Failure(value), s)

Failure_ap(value, f, s) == Ret(Failure(value), s)

\* A map that forgets to wrap the transform's result.
Success_map_raw(value, fn, s) == Call(fn, <<value>>, s)

\* Success(value).map: fn => Either.of(fn(value))
Success_map(value, fn, s) ==
  Then(Call(fn, <<value>>, s), LAMBDA r : Ret(Either_of(r.v), r.st))

\* Success(value).flatMap: fn => fn(value)
Success_flatMap(value, fn, s) == Call(fn, <<value>>, s)

\* Success(value).ap: f => f.map(value)
Success_ap(value, f, s) == Method(f, "map", <<value>>, s)

\* The reducer of mergeEithers, where only the first Failure is kept.
mergeEithersStep_first(accumulator, current, s) ==
  IF current.t = "Failure"
  THEN IF accumulator.t = "Failure"
       THEN Ret(accumulator, s)
       ELSE Ret(Failure(Arr(<<current.value>>)), s)
  ELSE IF accumulator.t = "Failure"
       THEN Ret(accumulator, s)
       ELSE Ret(Success(Arr(Append(accumulator.value.items, current.value))), s)

\* The reducer of mergeEithers: (accumulator, current) => ...
mergeEithersStep(accumulator, current, s) ==
  IF current.t = "Failure"
  THEN IF accumulator.t = "Failure"
       THEN Ret(Failure(Arr(Append(accumulator.value.items, current.value))), s)
       ELSE Ret(Failure(Arr(<<current.value>>)), s)
  ELSE IF accumulator.t = "Failure"
       THEN Ret(accumulator, s)
       ELSE Ret(Success(Arr(Append(accumulator.value.items, current.value))), s)

\* A merge step that forgets an earlier Nothing.
mergeMaybesStep_forgets(accumulator, current, s) ==
  IF current.t \notin {"Nothing", "Just"} \/ accumulator.t \notin {"Nothing", "Just"}
  THEN Throw(TypeError("isNothing is not a function"), s)
  ELSE IF current.t = "Nothing" THEN Ret(Nothing, s)
  ELSE IF accumulator.t = "Nothing" THEN Ret(Just(Arr(<<current.value>>)), s)
  ELSE Ret(Just(Arr(Append(accumulator.value.items, current.value))), s)

\* The reducer of mergeMaybes:
\*   (accumulator, current) => current.isNothing() ? Nothing
\*     : accumulator.isNothing() ? Nothing
\*     : Just([...accumulator.value, current.value])
mergeMaybesStep(accumulator, current, s) ==
  IF current.t \notin {"Nothing", "Just"} \/ accumulator.t \notin {"Nothing", "Just"}
  THEN Throw(TypeError("isNothing is not a function"), s)
  ELSE IF current.t = "Nothing" THEN Ret(Nothing, s)
  ELSE IF accumulator.t = "Nothing" THEN Ret(Nothing, s)
  ELSE Ret(Just(Arr(Append(accumulator.value.items, current.value))), s)

\* The reducer of validateEithers, where a passing predicate's own result
\* replaces the accumulator.
validateEithersStep_keepsResult(input, accumulator, currentFn, s) ==
  Then(Call(currentFn, <<input>>, s), LAMBDA r :
    LET currentResult == r.v
    IN  IF currentResult.t = "Failure"
        THEN IF accumulator.t = "Failure"
             THEN Ret(Failure(Arr(Append(accumulator.value.items, currentResult.value))), r.st)
             ELSE Ret(Failure(Arr(<<currentResult.value>>)), r.st)
        ELSE Ret(currentResult, r.st))

\* The reducer of validateEithers:
\*   (accumulator, currentFn) => (currentResult => ...)(currentFn(input))
validateEithersStep(input, accumulator, currentFn, s) ==
  Then(Call(currentFn, <<input>>, s), LAMBDA r :
    LET currentResult == r.v
    IN  IF currentResult.t = "Failure"
        THEN IF accumulator.t = "Failure"
             THEN Ret(Failure(Arr(Append(accumulator.value.items, currentResult.value))), r.st)
             ELSE Ret(Failure(Arr(<<currentResult.value>>)), r.st)
        ELSE Ret(accumulator, r.st))

\* A trigger that runs the computation only when nothing ran before.
SyncEffect_trigger_once(trigger, args, s) ==
  IF s.log # <<>> THEN Ret(Undef, s) ELSE Call(trigger, args, s)

\* SyncEffect: trigger is the wrapped function itself.
SyncEffect_trigger(trigger, args, s) == Call(trigger, args, s)

\* A map that runs the computation and the transform when it is applied.
SyncEffect_map_eager(trigger, fn, s) ==
  Then(Call(trigger, <<Undef>>, s), LAMBDA r :
    Then(Call(fn, <<r.v>>, r.st), LAMBDA q :
      Ret(getSyncEffect(constant(q.v)), q.st)))

\* map: fn => getSyncEffect(a => fn(trigger(a)))
SyncEffect_map(trigger, fn, s) ==
  Ret(getSyncEffect(Fn("SyncEffect_mapped", 1, <<fn, trigger>>)), s)

\* A mapped thunk that forwards nothing: () => fn(trigger())
SyncEffect_mapped_noarg(fn, trigger, a, s) ==
  Then(Call(trigger, <<>>, s), LAMBDA r : Call(fn, <<r.v>>, r.st))

\* a => fn(trigger(a))
SyncEffect_mapped(fn, trigger, a, s) ==
  Then(Call(trigger, <<a>>, s), LAMBDA r : Call(fn, <<r.v>>, r.st))

\* flatMap: fn => getSyncEffect(() => getSyncEffect(trigger).map(fn).trigger().trigger())
SyncEffect_flatMap(trigger, fn, s) ==
  Ret(getSyncEffect(Fn("SyncEffect_flatMapped", 0, <<fn, trigger>>)), s)

\* A flatMap that triggers once: () => getSyncEffect(trigger).map(fn).trigger()
SyncEffect_flatMapped_single(fn, trigger, s) ==
  Then(Method(getSyncEffect(trigger), "map", <<fn>>, s), LAMBDA m :
    Method(m.v, "trigger", <<>>, m.st))

\* () => getSyncEffect(trigger).map(fn).trigger().trigger()
SyncEffect_flatMapped(fn, trigger, s) ==
  Then(Method(getSyncEffect(trigger), "map", <<fn>>, s), LAMBDA m :
    Then(Method(m.v, "trigger", <<>>, m.st), LAMBDA inner :
      Method(inner.v, "trigger", <<>>, inner.st)))

\* ap: f => getSyncEffect(trigger).flatMap(fn => f.map(fn))
SyncEffect_ap(trigger, f, s) ==
  Method(getSyncEffect(trigger), "flatMap", <<Fn("SyncEffect_apFn", 1, <<f>>)>>, s)

\* fn => f.map(fn)
SyncEffect_apFn(f, fn, s) == Method(f, "map", <<fn>>, s)

\* args.reduce((accumulator, current) => accumulator(current), fn), from
\* the i-th argument on.
NaryReduce(accumulator, args, i) ==
  IF i > Len(args) THEN accumulator
  ELSE Then(Call(accumulator.v, <<args[i]>>, accumulator.st), LAMBDA r :
         NaryReduce(r, args, i + 1))

\* An nary that passes on its first argument only.
nary_call_unary(fn, args, s) ==
  IF Len(args) = 0 THEN Call(fn, <<>>, s) ELSE Call(fn, <<args[1]>>, s)

\* The function nary(fn) returns:
\*   (...args) => args.length === 0
\*     ? fn() : args.reduce((accumulator, current) => accumulator(current), fn)
nary_call(fn, args, s) ==
  IF Len(args) = 0 THEN Call(fn, <<>>, s) ELSE NaryReduce(Ret(fn, s), args, 1)

\* An of without the try: what trigger throws leaves the effect.
AsyncEffect_of_run_nocatch(trigger, reject, resolve, s) ==
  Then(Call(trigger, <<reject, resolve>>, s), LAMBDA r :
    LET result == r.v
    IN  IF isFunction(result) THEN Call(result, <<resolve>>, r.st)
        ELSE Ret(result, r.st))

\* An of whose try ends before the second stage is called:
\*   try { result = trigger(reject, resolve); } catch(error) { reject(error); }
\*   return isFunction(result) ? result(resolve) : result;
AsyncEffect_of_run_narrow(trigger, reject, resolve, s) ==
  Bind(Call(trigger, <<reject, resolve>>, s), LAMBDA r :
    IF r.ex
    THEN Then(Call(reject, <<r.v>>, r.st), LAMBDA caught : Ret(Undef, caught.st))
    ELSE IF isFunction(r.v) THEN Call(r.v, <<resolve>>, r.st)
    ELSE r)

\* The function AsyncEffect.of wraps trigger in, holding reject and resolve:
\*   try { const result = trigger(reject, resolve);
\*         return isFunction(result) ? result(resolve) : result; }
\*   catch(error) { reject(error); }
AsyncEffect_of_run(trigger, reject, resolve, s) ==
  Bind(Then(Call(trigger, <<reject, resolve>>, s), LAMBDA r :
         LET result == r.v
         IN  IF isFunction(result) THEN Call(result, <<resolve>>, r.st)
             ELSE Ret(result, r.st)),
       LAMBDA c :
         IF ~c.ex THEN c
         ELSE Then(Call(reject, <<c.v>>, c.st), LAMBDA caught : Ret(Undef, caught.st)))

\* An ofPromise that forgets the catch: promise().then(resolve)
ofPromise_run_nocatch(promise, reject, resolve, s) ==
  Then(Call(promise, <<>>, s), LAMBDA p : PromiseThen(p.v, resolve, Undef, p.st))

\* The function of ofPromise, holding reject and resolve:
\*   promise().then(resolve).catch(reject)
ofPromise_run(promise, reject, resolve, s) ==
  Then(Call(promise, <<>>, s), LAMBDA p :
    Then(PromiseThen(p.v, resolve, Undef, p.st), LAMBDA q :
      PromiseThen(q.v, Undef, reject, q.st)))

\* trigger(reject)(resolve)
Triggered(trigger, reject, resolve, s) ==
  Then(Call(trigger, <<reject>>, s), LAMBDA r : Call(r.v, <<resolve>>, r.st))

\* A promise that hands the executor's functions over in the other order:
\* new Promise((resolve, reject) => trigger(resolve)(reject))
AsyncEffect_promise_swapped(trigger, s) ==
  Bind(NewPromise(s), LAMBDA s1 :
    LET id == Len(s1.promises)
    IN  Bind(Triggered(trigger, promiseResolve(id), promiseReject(id), s1), LAMBDA r :
          Ret(PromiseRef(id), IF r.ex THEN RejectPromise(r.st, id, r.v) ELSE r.st)))

\* promise: () => new Promise((resolve, reject) => trigger(reject)(resolve))
AsyncEffect_promise(trigger, s) ==
  Bind(NewPromise(s), LAMBDA s1 :
    LET id == Len(s1.promises)
    IN  Bind(Triggered(trigger, promiseReject(id), promiseResolve(id), s1), LAMBDA r :
          Ret(PromiseRef(id), IF r.ex THEN RejectPromise(r.st, id, r.v) ELSE r.st)))

\* A map that starts the computation when it is applied.
AsyncEffect_map_eager(trigger, fn, s) ==
  Bind(Triggered(trigger, Fn("AsyncEffect_map_callback", 1, <<fn, identity>>),
                 Fn("AsyncEffect_map_callback", 1, <<fn, identity>>), s),
       LAMBDA r :
         Ret(getAsyncEffect(nary(Fn("AsyncEffect_map_reject", 1, <<fn, trigger>>))), r.st))

\* map: fn => getAsyncEffect(nary(reject => resolve =>
\*               trigger(reject)(a => resolve(fn(a)))))
AsyncEffect_map(trigger, fn, s) ==
  Ret(getAsyncEffect(nary(Fn("AsyncEffect_map_reject", 1, <<fn, trigger>>))), s)

\* A map that transforms what the original rejects with as well.
AsyncEffect_map_run_both(fn, trigger, reject, resolve, s) ==
  Triggered(trigger, Fn("AsyncEffect_map_callback", 1, <<fn, reject>>),
            Fn("AsyncEffect_map_callback", 1, <<fn, resolve>>), s)

\* reject => resolve => trigger(reject)(a => resolve(fn(a)))
AsyncEffect_map_run(fn, trigger, reject, resolve, s) ==
  Triggered(trigger, reject, Fn("AsyncEffect_map_callback", 1, <<fn, resolve>>), s)

\* a => resolve(fn(a))
AsyncEffect_map_callback(fn, resolve, a, s) ==
  Then(Call(fn, <<a>>, s), LAMBDA r : Call(resolve, <<r.v>>, r.st))

\* flatMap: fn => getAsyncEffect(nary(reject => resolve =>
\*                   trigger(reject)(x => fn(x).trigger(reject)(resolve))))
AsyncEffect_flatMap(trigger, fn, s) ==
  Ret(getAsyncEffect(nary(Fn("AsyncEffect_flatMap_reject", 1, <<fn, trigger>>))), s)

\* A flatMap that hands the first effect's rejection to fn as well.
AsyncEffect_flatMap_run_onReject(fn, trigger, reject, resolve, s) ==
  Triggered(trigger, Fn("AsyncEffect_flatMap_callback", 1, <<fn, reject, resolve>>),
            Fn("AsyncEffect_flatMap_callback", 1, <<fn, reject, resolve>>), s)

AsyncEffect_flatMap_run(fn, trigger, reject, resolve, s) ==
  Triggered(trigger, reject,
            Fn("AsyncEffect_flatMap_callback", 1, <<fn, reject, resolve>>), s)

\* x => fn(x).trigger(reject)(resolve)
AsyncEffect_flatMap_callback(fn, reject, resolve, x, s) ==
  Then(Call(fn, <<x>>, s), LAMBDA r :
    Then(Method(r.v, "trigger", <<reject>>, r.st), LAMBDA partial :
      Call(partial.v, <<resolve>>, partial.st)))

\* An ap with its operands exchanged: f => f.flatMap(fn => getAsyncEffect(trigger).map(fn))
AsyncEffect_ap_exchanged(trigger, f, s) ==
  Method(f, "flatMap", <<Fn("AsyncEffect_apFn", 1, <<getAsyncEffect(trigger)>>)>>, s)

\* ap: f => getAsyncEffect(trigger).flatMap(fn => f.map(fn))
AsyncEffect_ap(trigger, f, s) ==
  Method(getAsyncEffect(trigger), "flatMap", <<Fn("AsyncEffect_apFn", 1, <<f>>)>>, s)

\* fn => f.map(fn)
AsyncEffect_apFn(f, fn, s) == Method(f, "map", <<fn>>, s)

\* A map that stops at the first effect whose promise is rejected at once.
MapPromise_stops(asyncEffects, i, mapped) ==
  IF \/ i > Len(asyncEffects)
     \/ \E j \in 1..Len(mapped.st.promises) : mapped.st.promises[j].state = "rejected"
  THEN mapped
  ELSE Then(Method(asyncEffects[i], "promise", <<>>, mapped.st), LAMBDA p :
         MapPromise(asyncEffects, i + 1, Ret(Arr(Append(mapped.v.items, p.v)), p.st)))

\* asyncEffects.map(a => a.promise()), from the i-th effect on; mapped holds
\* the promises so far.
MapPromise(asyncEffects, i, mapped) ==
  IF i > Len(asyncEffects) THEN mapped
  ELSE Then(Method(asyncEffects[i], "promise", <<>>, mapped.st), LAMBDA p :
         MapPromise(asyncEffects, i + 1, Ret(Arr(Append(mapped.v.items, p.v)), p.st)))

Reverse(seq) == [i \in 1..Len(seq) |-> seq[Len(seq) + 1 - i]]

\* A merge that hands Promise.all the promises last effect first.
mergeAsyncEffects_promise_reversed(asyncEffects, s) ==
  Then(MapPromise(asyncEffects, 1, Ret(Arr(<<>>), s)), LAMBDA mapped :
    PromiseAll(Reverse(mapped.v.items), mapped.st))

\* () => Promise.all(map(a => a.promise())(asyncEffects))
mergeAsyncEffects_promise(asyncEffects, s) ==
  Then(MapPromise(asyncEffects, 1, Ret(Arr(<<>>), s)), LAMBDA mapped :
    PromiseAll(mapped.v.items, mapped.st))

\* A liftA2 that applies the second container to the first:
\* ap2.map(fn).ap(ap1)
liftA2_run_swapped(fn, ap1, ap2, s) ==
  Then(Method(ap2, "map", <<fn>>, s), LAMBDA mapped :
    Method(mapped.v, "ap", <<ap1>>, mapped.st))

\* The body of liftA2: ap1.map(fn).ap(ap2)
liftA2_run(fn, ap1, ap2, s) ==
  Then(Method(ap1, "map", <<fn>>, s), LAMBDA mapped :
    Method(mapped.v, "ap", <<ap2>>, mapped.st))

\* The body of liftA3: ap1.map(fn).ap(ap2).ap(ap3)
liftA3_run(fn, ap1, ap2, ap3, s) ==
  Then(Method(ap1, "map", <<fn>>, s), LAMBDA mapped :
    Then(Method(mapped.v, "ap", <<ap2>>, mapped.st), LAMBDA applied :
      Method(applied.v, "ap", <<ap3>>, applied.st)))

\* The code of the functions the library and the runtime create.
LibraryCall(f, args, s) ==
  CASE f.name = "mergeEithersStep" -> mergeEithersStep(Arg(args, 1), Arg(args, 2), s)
    [] f.name = "SyncEffect_mapped" ->
         SyncEffect_mapped(f.env[1], f.env[2], Arg(args, 1), s)
    [] f.name = "SyncEffect_flatMapped" -> SyncEffect_flatMapped(f.env[1], f.env[2], s)
    [] f.name = "SyncEffect_apFn" -> SyncEffect_apFn(f.env[1], Arg(args, 1), s)
    [] f.name = "nary" -> nary_call(f.env[1], args, s)
    [] f.name = "AsyncEffect_of_reject" ->
         Ret(Fn("AsyncEffect_of_resolve", 1, Append(f.env, Arg(args, 1))), s)
    [] f.name = "AsyncEffect_of_resolve" ->
         AsyncEffect_of_run(f.env[1], f.env[2], Arg(args, 1), s)
    [] f.name = "ofPromise_reject" ->
         Ret(Fn("ofPromise_resolve", 1, Append(f.env, Arg(args, 1))), s)
    [] f.name = "ofPromise_resolve" ->
         ofPromise_run(f.env[1], f.env[2], Arg(args, 1), s)
    [] f.name = "AsyncEffect_map_reject" ->
         Ret(Fn("AsyncEffect_map_resolve", 1, Append(f.env, Arg(args, 1))), s)
    [] f.name = "AsyncEffect_map_resolve" ->
         AsyncEffect_map_run(f.env[1], f.env[2], f.env[3], Arg(args, 1), s)
    [] f.name = "AsyncEffect_map_callback" ->
         AsyncEffect_map_callback(f.env[1], f.env[2], Arg(args, 1), s)
    [] f.name = "AsyncEffect_flatMap_reject" ->
         Ret(Fn("AsyncEffect_flatMap_resolve", 1, Append(f.env, Arg(args, 1))), s)
    [] f.name = "AsyncEffect_flatMap_resolve" ->
         AsyncEffect_flatMap_run(f.env[1], f.env[2], f.env[3], Arg(args, 1), s)
    [] f.name = "AsyncEffect_flatMap_callback" ->
         AsyncEffect_flatMap_callback(f.env[1], f.env[2], f.env[3], Arg(args, 1), s)
    [] f.name = "AsyncEffect_apFn" -> AsyncEffect_apFn(f.env[1], Arg(args, 1), s)
    [] f.name = "mergeAsyncEffects_promise" ->
         mergeAsyncEffects_promise(f.env[1].items, s)
    [] f.name = "promiseResolve" -> Ret(Undef, ResolvePromise(s, f.env[1].n, Arg(args, 1)))
    [] f.name = "promiseReject" -> Ret(Undef, RejectPromise(s, f.env[1].n, Arg(args, 1)))
    [] f.name = "validateEithersStep" ->
         validateEithersStep(f.env[1], Arg(args, 1), Arg(args, 2), s)
    [] f.name = "mergeMaybesStep" -> mergeMaybesStep(Arg(args, 1), Arg(args, 2), s)
    \* eitherToMaybe: () => Nothing, value => Maybe.of(value)
    [] f.name = "eitherToMaybe_onFailure" -> Ret(Nothing, s)
    [] f.name = "eitherToMaybe_onSuccess" -> Ret(Maybe_of(Arg(args, 1)), s)
    \* maybeToEither: () => Failure('Maybe is Nothing.'), value => Success(value)
    [] f.name = "maybeToEither_onNothing" -> Ret(Failure(Str("Maybe is Nothing.")), s)
    [] f.name = "maybeToEither_onJust" -> Ret(Success(Arg(args, 1)), s)
    \* maybeToSyncEffect: () => SyncEffect.of(() => { throw 'Maybe is Nothing.' }),
    \*                    value => SyncEffect.of(() => value)
    [] f.name = "maybeToSyncEffect_onNothing" ->
         Ret(SyncEffect_of(Fn("maybeToSyncEffect_throw", 0, <<>>)), s)
    [] f.name = "maybeToSyncEffect_throw" -> Throw(Str("Maybe is Nothing."), s)
    [] f.name = "maybeToSyncEffect_onJust" ->
         Ret(SyncEffect_of(Fn("maybeToSyncEffect_value", 0, <<Arg(args, 1)>>)), s)
    [] f.name = "maybeToSyncEffect_value" -> Ret(f.env[1], s)
    \* maybeToAsyncEffect: () => AsyncEffect.of(reject => _ => reject('Maybe is Nothing.')),
    \*                     value => AsyncEffect.of(_ => resolve => resolve(value))
    [] f.name = "maybeToAsyncEffect_onNothing" ->
         Ret(AsyncEffect_of(Fn("maybeToAsyncEffect_reject", 1, <<>>)), s)
    [] f.name = "maybeToAsyncEffect_reject" ->
         Ret(Fn("maybeToAsyncEffect_rejected", 1, <<Arg(args, 1)>>), s)
    [] f.name = "maybeToAsyncEffect_rejected" ->
         Call(f.env[1], <<Str("Maybe is Nothing.")>>, s)
    [] f.name = "maybeToAsyncEffect_onJust" ->
         Ret(AsyncEffect_of(Fn("maybeToAsyncEffect_resolve", 1, <<Arg(args, 1)>>)), s)
    [] f.name = "maybeToAsyncEffect_resolve" ->
         Ret(Fn("maybeToAsyncEffect_resolved", 1, f.env), s)
    [] f.name = "maybeToAsyncEffect_resolved" -> Call(Arg(args, 1), <<f.env[1]>>, s)
    \* eitherToSyncEffect: error => SyncEffect.of(() => { throw error; }),
    \*                     value => SyncEffect.of(() => value)
    [] f.name = "eitherToSyncEffect_onFailure" ->
         Ret(SyncEffect_of(Fn("eitherToSyncEffect_throw", 0, <<Arg(args, 1)>>)), s)
    [] f.name = "eitherToSyncEffect_throw" -> Throw(f.env[1], s)
    [] f.name = "eitherToSyncEffect_onSuccess" ->
         Ret(SyncEffect_of(Fn("eitherToSyncEffect_value", 0, <<Arg(args, 1)>>)), s)
    [] f.name = "eitherToSyncEffect_value" -> Ret(f.env[1], s)
    \* eitherToAsyncEffect: error => AsyncEffect.of(reject => _ => reject(error)),
    \*                      value => AsyncEffect.of(_ => resolve => resolve(value))
    [] f.name = "eitherToAsyncEffect_onFailure" ->
         Ret(AsyncEffect_of(Fn("eitherToAsyncEffect_reject", 1, <<Arg(args, 1)>>)), s)
    [] f.name = "eitherToAsyncEffect_reject" ->
         Ret(Fn("eitherToAsyncEffect_rejected", 1, Append(f.env, Arg(args, 1))), s)
    [] f.name = "eitherToAsyncEffect_rejected" -> Call(f.env[2], <<f.env[1]>>, s)
    [] f.name = "eitherToAsyncEffect_onSuccess" ->
         Ret(AsyncEffect_of(Fn("eitherToAsyncEffect_resolve", 1, <<Arg(args, 1)>>)), s)
    [] f.name = "eitherToAsyncEffect_resolve" ->
         Ret(Fn("eitherToAsyncEffect_resolved", 1, f.env), s)
    [] f.name = "eitherToAsyncEffect_resolved" -> Call(Arg(args, 1), <<f.env[1]>>, s)
    \* liftA2: fn => ap1 => ap2 => ap1.map(fn).ap(ap2)
    [] f.name = "liftA2_fn" -> Ret(Fn("liftA2_ap1", 1, <<Arg(args, 1)>>), s)
    [] f.name = "liftA2_ap1" -> Ret(Fn("liftA2_ap2", 1, Append(f.env, Arg(args, 1))), s)
    [] f.name = "liftA2_ap2" -> liftA2_run(f.env[1], f.env[2], Arg(args, 1), s)
    \* liftA3: fn => ap1 => ap2 => ap3 => ap1.map(fn).ap(ap2).ap(ap3)
    [] f.name = "liftA3_fn" -> Ret(Fn("liftA3_ap1", 1, <<Arg(args, 1)>>), s)
    [] f.name = "liftA3_ap1" -> Ret(Fn("liftA3_ap2", 1, Append(f.env, Arg(args, 1))), s)
    [] f.name = "liftA3_ap2" -> Ret(Fn("liftA3_ap3", 1, Append(f.env, Arg(args, 1))), s)
    [] f.name = "liftA3_ap3" ->
         liftA3_run(f.env[1], f.env[2], f.env[3], Arg(args, 1), s)
    [] OTHER -> Throw(TypeError("unknown code"), s)

\* f(...args): calling what is no function throws a TypeError.
Call(f, args, s) ==
  IF ~isFunction(f) THEN Throw(TypeError("is not a function"), s)
  ELSE IF f.name \in UserNames THEN UserCall(f, args, Logged(s, f, args))
  ELSE LibraryCall(f, args, s)

\* list.reduce(reducer, initial), from the i-th element on: the reducer
\* receives (accumulator, element, index, list).
ArrayReduce(list, reducer, acc, i, s) ==
  IF i > Len(list) THEN Ret(acc, s)
  ELSE Then(Call(reducer, <<acc, list[i], Num(i - 1), Arr(list)>>, s), LAMBDA r :
         ArrayReduce(list, reducer, r.v, i + 1, r.st))

\* reduce(initial)(reducer)(list)
reduce(initial, reducer, list, s) == ArrayReduce(list.items, reducer, initial, 1, s)

\* mergeEithers(...eithers)
mergeEithers(eithers, s) ==
  reduce(Success(Arr(<<>>)), Fn("mergeEithersStep", 2, <<>>), Arr(eithers), s)

\* validateEithers(...fns)(input)
validateEithers(fns, input, s) ==
  reduce(Success(input), Fn("validateEithersStep", 2, <<input>>), Arr(fns), s)

\* obj.m(...args)
Method(obj, m, args, s) ==
  CASE obj.t = "Nothing" /\ m = "map" -> Nothing_map(Arg(args, 1), s)
    [] obj.t = "Nothing" /\ m = "flatMap" -> Nothing_flatMap(Arg(args, 1), s)
    [] obj.t = "Nothing" /\ m = "ap" -> Nothing_ap(Arg(args, 1), s)
    [] obj.t = "Just" /\ m = "map" -> Just_map(obj.value, Arg(args, 1), s)
    [] obj.t = "Just" /\ m = "flatMap" -> Just_flatMap(obj.value, Arg(args, 1), s)
    [] obj.t = "Just" /\ m = "ap" -> Just_ap(obj.value, Arg(args, 1), s)
    [] obj.t = "Failure" /\ m = "map" -> Failure_map(obj.value, Arg(args, 1), s)
    [] obj.t = "Failure" /\ m = "flatMap" -> Failure_flatMap(obj.value, Arg(args, 1), s)
    [] obj.t = "Failure" /\ m = "ap" -> Failure_ap(obj.value, Arg(args, 1), s)
    [] obj.t = "Success" /\ m = "map" -> Success_map(obj.value, Arg(args, 1), s)
    [] obj.t = "Success" /\ m = "flatMap" -> Success_flatMap(obj.value, Arg(args, 1), s)
    [] obj.t = "Success" /\ m = "ap" -> Success_ap(obj.value, Arg(args, 1), s)
    [] obj.t = "SyncEffect" /\ m = "trigger" -> SyncEffect_trigger(obj.trigger, args, s)
    [] obj.t = "SyncEffect" /\ m = "map" -> SyncEffect_map(obj.trigger, Arg(args, 1), s)
    [] obj.t = "SyncEffect" /\ m = "flatMap" ->
         SyncEffect_flatMap(obj.trigger, Arg(args, 1), s)
    [] obj.t = "SyncEffect" /\ m = "ap" -> SyncEffect_ap(obj.trigger, Arg(args, 1), s)
    [] obj.t = "AsyncEffect" /\ m = "trigger" -> Call(obj.trigger, args, s)
    [] obj.t = "AsyncEffect" /\ m = "promise" -> AsyncEffect_promise(obj.trigger, s)
    [] obj.t = "AsyncEffect" /\ m = "map" -> AsyncEffect_map(obj.trigger, Arg(args, 1), s)
    [] obj.t = "AsyncEffect" /\ m = "flatMap" ->
         AsyncEffect_flatMap(obj.trigger, Arg(args, 1), s)
    [] obj.t = "AsyncEffect" /\ m = "ap" -> AsyncEffect_ap(obj.trigger, Arg(args, 1), s)
    [] OTHER -> Throw(TypeError("is not a function"), s)

\* either(onFailure)(onSuccess)(functorEither):
\*   functorEither.isFailure() ? onFailure(functorEither.value)
\*                             : onSuccess(functorEither.value)
either(onFailure, onSuccess, functorEither, s) ==
  IF functorEither.t = "Failure" THEN Call(onFailure, <<functorEither.value>>, s)
  ELSE IF functorEither.t = "Success" THEN Call(onSuccess, <<functorEither.value>>, s)
  ELSE Throw(TypeError("isFailure is not a function"), s)

\* maybe(onNothing)(onJust)(functorMaybe):
\*   functorMaybe.isNothing() ? onNothing() : onJust(functorMaybe.value)
maybe(onNothing, onJust, functorMaybe, s) ==
  IF functorMaybe.t = "Nothing" THEN Call(onNothing, <<>>, s)
  ELSE IF functorMaybe.t = "Just" THEN Call(onJust, <<functorMaybe.value>>, s)
  ELSE Throw(TypeError("isNothing is not a function"), s)

\* eitherToMaybe: either(() => Nothing)(value => Maybe.of(value))(eitherMonad)
eitherToMaybe(eitherMonad, s) ==
  either(Fn("eitherToMaybe_onFailure", 0, <<>>), Fn("eitherToMaybe_onSuccess", 1, <<>>),
         eitherMonad, s)

\* mergeMaybes(...maybes): reduce(Just([]))(step)(maybes)
mergeMaybes(maybes, s) ==
  reduce(Just(Arr(<<>>)), Fn("mergeMaybesStep", 2, <<>>), Arr(maybes), s)

\* A conversion that looks at the Maybe's value, not at its variant.
maybeToEither_byValue(maybeMonad, s) ==
  maybe(Fn("maybeToEither_onNothing", 0, <<>>), Fn("maybeToEither_onJust", 1, <<>>),
        Maybe_of(maybeMonad.value), s)

\* maybeToEither: maybe(() => Failure('Maybe is Nothing.'))(value => Success(value))
maybeToEither(maybeMonad, s) ==
  maybe(Fn("maybeToEither_onNothing", 0, <<>>), Fn("maybeToEither_onJust", 1, <<>>),
        maybeMonad, s)

maybeToSyncEffect(maybeMonad, s) ==
  maybe(Fn("maybeToSyncEffect_onNothing", 0, <<>>), Fn("maybeToSyncEffect_onJust", 1, <<>>),
        maybeMonad, s)

maybeToAsyncEffect(maybeMonad, s) ==
  maybe(Fn("maybeToAsyncEffect_onNothing", 0, <<>>), Fn("maybeToAsyncEffect_onJust", 1, <<>>),
        maybeMonad, s)

\* A conversion that throws the payload of a Failure when it converts.
eitherToSyncEffect_throwsAtOnce(eitherMonad, s) ==
  IF eitherMonad.t = "Failure" THEN Throw(eitherMonad.value, s)
  ELSE either(Fn("eitherToSyncEffect_onFailure", 1, <<>>),
              Fn("eitherToSyncEffect_onSuccess", 1, <<>>), eitherMonad, s)

\* eitherToSyncEffect: either(error => SyncEffect.of(() => { throw error; }))
\*                           (value => SyncEffect.of(() => value))(eitherMonad)
eitherToSyncEffect(eitherMonad, s) ==
  either(Fn("eitherToSyncEffect_onFailure", 1, <<>>),
         Fn("eitherToSyncEffect_onSuccess", 1, <<>>), eitherMonad, s)

\* eitherToAsyncEffect: either(error => AsyncEffect.of(reject => _ => reject(error)))
\*                            (value => AsyncEffect.of(_ => resolve => resolve(value)))
eitherToAsyncEffect(eitherMonad, s) ==
  either(Fn("eitherToAsyncEffect_onFailure", 1, <<>>),
         Fn("eitherToAsyncEffect_onSuccess", 1, <<>>), eitherMonad, s)

\* syncEffectToMaybe: try { return Maybe.of(syncEffectMonad.trigger()); }
\*                    catch(error) { return Nothing; }
syncEffectToMaybe(syncEffectMonad, s) ==
  Bind(Method(syncEffectMonad, "trigger", <<>>, s), LAMBDA r :
    IF r.ex THEN Ret(Nothing, r.st) ELSE Ret(Maybe_of(r.v), r.st))

-----------------------------------------------------------------------------
(* The containers: construction, then a chain of map / flatMap / ap *)

\* The values the caller wraps.
JSValues ==
  {Null, Undef, Num(0), Num(1), Bool(FALSE), Str(""), Str("a"),
   Arr(<<>>), Arr(<<Num(0)>>),
   Obj("Object", <<>>), Obj("Object", <<<<"a", Num(1)>>>>),
   Obj("Object", <<<<"length", Num(0)>>>>), Obj("Date", <<>>),
   constNull, identity, pair}

\* The transforms the caller maps with.
Transforms ==
  {identity, wrapArr, constNull, fMaybeOf, fJustArr, fSuccessArr, fFailureArr, pair}

\* The containers the caller applies to (the argument of ap).
ApArgs ==
  {Nothing, Just(Num(1)), Just(Null), Success(Num(1)), Success(Str("")), Failure(Str("e"))}

InitContainers ==
  /\ pc = "init"
  /\ box = Undef
  /\ prev = [box |-> Undef, st |-> St0]
  /\ arg = Undef
  /\ ctor = [name |-> "none", x |-> Undef]
  /\ ret = Ret(Undef, St0)
  /\ st = St0
  /\ steps = 0
  /\ triggers = 0
  /\ promised = 0

Constructed(name, x, c) ==
  /\ pc = "init"
  /\ pc' = "ctor"
  /\ box' = c
  /\ ctor' = [name |-> name, x |-> x]
  /\ ret' = Ret(c, St0)
  /\ UNCHANGED <<prev, arg, st, steps, triggers, promised>>

\* The call name(x) completed with r and left the caller at position at.
Converted(name, x, r, at) ==
  /\ pc = "init"
  /\ \E c \in {r} :
       /\ ret' = c
       /\ st' = c.st
       /\ box' = IF c.ex THEN [t |-> "thrown", value |-> c.v] ELSE c.v
  /\ ctor' = [name |-> name, x |-> x]
  /\ pc' = at
  /\ UNCHANGED <<prev, arg, steps, triggers, promised>>

CtorMaybeOf == \E x \in JSValues : Constructed("Maybe.of", x, Maybe_of(x))

CtorJust == \E x \in JSValues : Constructed("Just", x, Just(x))

CtorNothing == Constructed("Nothing", Undef, Nothing)

CtorEitherOf == \E x \in JSValues : Constructed("Either.of", x, Either_of(x))

CtorSuccess == \E x \in JSValues : Constructed("Success", x, Success(x))

CtorFailure == \E x \in JSValues : Constructed("Failure", x, Failure(x))

\* box.m(a): the result replaces box; a thrown value ends the chain.
Applied(m, a) ==
  /\ pc \in {"ctor", "map", "flatMap", "ap"}
  /\ steps < MaxChain
  /\ IsContainer(box)
  /\ \E r \in {Method(box, m, <<a>>, st)} :
       /\ ret' = r
       /\ st' = r.st
       /\ box' = IF r.ex THEN [t |-> "thrown", value |-> r.v] ELSE r.v
  /\ pc' = m
  /\ prev' = [box |-> box, st |-> st]
  /\ arg' = a
  /\ steps' = steps + 1
  /\ UNCHANGED <<ctor, triggers, promised>>

OpMap == \E f \in Transforms : Applied("map", f)

OpFlatMap == \E f \in Transforms : Applied("flatMap", f)

OpAp == \E c \in ApArgs : Applied("ap", c)

NextContainers ==
  \/ CtorMaybeOf
  \/ CtorJust
  \/ CtorNothing
  \/ CtorEitherOf
  \/ CtorSuccess
  \/ CtorFailure
  \/ OpMap
  \/ OpFlatMap
  \/ OpAp

SpecContainers == InitContainers /\ [][NextContainers]_vars

-----------------------------------------------------------------------------
(* Properties of the containers, checked under SpecContainers *)

\* The inputs the documentation of Maybe calls empty.
EmptyInputs == {Null, Undef, Str(""), Arr(<<>>), Obj("Object", <<>>)}

\* The transforms that return a wrapped container.
WrappingFns == {fMaybeOf, fJustArr, fSuccessArr, fFailureArr}

SameContainer(c, d) == c.t = d.t /\ c.value = d.value

\* C1: Maybe.of(x) is Nothing exactly for null, undefined, '', [] and {};
\* for every other x (0, false, functions of any declared parameter count,
\* dates, ...) it is Just(x).
C1_MaybeOfClassification ==
  (pc = "ctor" /\ ctor.name = "Maybe.of") =>
    IF ctor.x \in EmptyInputs THEN box = Nothing ELSE box = Just(ctor.x)

\* C5: map, flatMap and ap on Nothing or on Failure(e) invoke no
\* caller-supplied function and give Nothing, respectively Failure(e) with
\* the same payload, at every position of a chain.
C5_ShortCircuit ==
  (pc \in {"map", "flatMap", "ap"} /\ prev.box.t \in {"Nothing", "Failure"}) =>
    /\ st = prev.st
    /\ ~ret.ex
    /\ prev.box.t = "Nothing" => box = Nothing
    /\ prev.box.t = "Failure" => box = Failure(prev.box.value)

C5_Witness ==
  /\ pc = "flatMap"
  /\ steps = 2
  /\ arg = fJustArr
  /\ prev.box = Failure(Str("a"))
  /\ box = Failure(Str("a"))

\* C6 as stated: container.map(identity) has the variant and the payload of
\* container, for Nothing, every Just(v) (also one built with the direct
\* constructor), Success(v) and Failure(e).
C6_FunctorIdentity_AnyJust ==
  (pc = "map" /\ arg = identity /\ IsContainer(prev.box)) =>
    ~ret.ex /\ SameContainer(box, prev.box)

\* C6 as amended: container.map(identity) has the variant and the payload of
\* container for Nothing, Success(v), Failure(e), and for every Just(v) whose
\* payload isNothing does not classify as nothing.
C6_FunctorIdentity ==
  (/\ pc = "map"
   /\ arg = identity
   /\ IsContainer(prev.box)
   /\ prev.box.t = "Just" => ~isNothing(prev.box.value)) =>
    ~ret.ex /\ SameContainer(box, prev.box)

C6_Witness ==
  /\ pc = "map"
  /\ arg = identity
  /\ steps = 1
  /\ ctor = [name |-> "Just", x |-> Num(0)]
  /\ box = Just(Num(0))

\* C7 as stated: for every value x and every f returning a wrapped
\* container, Maybe.of(x).flatMap(f) and Either.of(x).flatMap(f) equal f(x).
C7_LeftIdentity_AnyValue ==
  (/\ pc = "flatMap"
   /\ steps = 1
   /\ ctor.name \in {"Maybe.of", "Either.of"}
   /\ arg \in WrappingFns) =>
    ~ret.ex /\ box = UserCall(arg, <<ctor.x>>, St0).v

\* C7 as amended: Either.of(x).flatMap(f) equals f(x) for every x, and
\* Maybe.of(x).flatMap(f) equals f(x) for every x that isNothing does not
\* classify as nothing.
C7_LeftIdentity ==
  (/\ pc = "flatMap"
   /\ steps = 1
   /\ ctor.name \in {"Maybe.of", "Either.of"}
   /\ arg \in WrappingFns
   /\ ctor.name = "Maybe.of" => ~isNothing(ctor.x)) =>
    ~ret.ex /\ box = UserCall(arg, <<ctor.x>>, St0).v

C7_Witness ==
  /\ pc = "flatMap"
  /\ steps = 1
  /\ ctor = [name |-> "Maybe.of", x |-> Num(0)]
  /\ arg = fSuccessArr
  /\ box = Success(Arr(<<Num(0)>>))

-----------------------------------------------------------------------------
(* mergeEithers and validateEithers, each called once on chosen arguments *)

\* The most Eithers merged, and the most predicates validated with.
MaxMerge == 4
MaxPreds == 3

SeqsUpTo(S, n) == UNION {[1..k -> S] : k \in 0..n}

\* The Eithers the caller merges.
MergeInputs ==
  {Success(Str("a")), Success(Str("b")), Success(Arr(<<>>)),
   Failure(Str("e1")), Failure(Str("e2"))}

\* The inputs validated and the predicates validating them.
ValidateInputs == {Num(0), Str("pw")}

Predicates ==
  {predicate(id, passes, echo) :
     id \in {"P", "Q"}, passes \in {<<>>, <<Num(0)>>, <<Num(0), Str("pw")>>},
     echo \in BOOLEAN}

Called(name, a, r) ==
  /\ pc = "init"
  /\ pc' = name
  /\ arg' = a
  /\ \E c \in {r} :
       /\ ret' = c
       /\ st' = c.st
       /\ box' = IF c.ex THEN [t |-> "thrown", value |-> c.v] ELSE c.v
  /\ UNCHANGED <<prev, ctor, steps, triggers, promised>>

DoMergeEithers ==
  \E es \in SeqsUpTo(MergeInputs, MaxMerge) :
    Called("mergeEithers", [eithers |-> es], mergeEithers(es, st))

DoValidateEithers ==
  \E fns \in SeqsUpTo(Predicates, MaxPreds), input \in ValidateInputs :
    Called("validateEithers", [fns |-> fns, input |-> input],
           validateEithers(fns, input, st))

NextMerge ==
  \/ DoMergeEithers
  \/ DoValidateEithers

SpecMerge == InitContainers /\ [][NextMerge]_vars

IsFailureC(c) == c.t = "Failure"

Payloads(cs) == [i \in 1..Len(cs) |-> cs[i].value]

\* What each predicate of fns returns on input.
Verdicts(fns, input) == [i \in 1..Len(fns) |-> UserCall(fns[i], <<input>>, St0).v]

\* C8: mergeEithers(e1..en), n >= 0, is Success of all payloads in input
\* order if every ei is Success, and otherwise Failure of the payloads of
\* exactly the Failure inputs, in input order.
C8_MergeEithers ==
  pc = "mergeEithers" =>
    /\ ~ret.ex
    /\ box = IF \A i \in 1..Len(arg.eithers) : arg.eithers[i].t = "Success"
             THEN Success(Arr(Payloads(arg.eithers)))
             ELSE Failure(Arr(Payloads(SelectSeq(arg.eithers, IsFailureC))))

C8_Witness ==
  /\ pc = "mergeEithers"
  /\ arg.eithers = <<Success(Str("a")), Failure(Str("e1")), Failure(Str("e2")),
                     Success(Str("b"))>>
  /\ box = Failure(Arr(<<Str("e1"), Str("e2")>>))

\* C9: validateEithers(p1..pn)(input) calls every predicate exactly once,
\* in order, on the same input; the result is Success(input) if and only if
\* every predicate returned Success, and otherwise Failure of the payloads
\* of exactly the failing predicates, in invocation order.
C9_ValidateEithers ==
  pc = "validateEithers" =>
    /\ ~ret.ex
    /\ st.log = [i \in 1..Len(arg.fns) |-> [f |-> arg.fns[i], a |-> <<arg.input>>]]
    /\ box = IF \A i \in 1..Len(arg.fns) : Verdicts(arg.fns, arg.input)[i].t = "Success"
             THEN Success(arg.input)
             ELSE Failure(Arr(Payloads(SelectSeq(Verdicts(arg.fns, arg.input), IsFailureC))))

C9_Witness ==
  /\ pc = "validateEithers"
  /\ arg.input = Str("pw")
  /\ arg.fns = <<predicate("P", <<Num(0)>>, TRUE),
                 predicate("Q", <<Num(0), Str("pw")>>, FALSE),
                 predicate("Q", <<>>, TRUE)>>
  /\ box = Failure(Arr(<<Str("failP"), Str("failQ")>>))

-----------------------------------------------------------------------------
(* SyncEffect: of, a chain of map / flatMap / ap, and triggers *)

\* The most evaluations the caller starts.
MaxTriggers == 2

IsEffect(c) == c.t \in {"SyncEffect", "AsyncEffect"}

\* The caller composes the effect it holds: box = box.m(a).
Composed(m, a) ==
  /\ pc \notin {"init", "partial"}
  /\ steps < MaxChain
  /\ IsEffect(box)
  /\ \E r \in {Method(box, m, <<a>>, st)} :
       /\ ret' = r
       /\ st' = r.st
       /\ box' = IF r.ex THEN [t |-> "thrown", value |-> r.v] ELSE r.v
  /\ pc' = m
  /\ prev' = [box |-> box, st |-> st]
  /\ arg' = a
  /\ steps' = steps + 1
  /\ UNCHANGED <<ctor, triggers, promised>>

\* The thunks the caller wraps; identity returns the argument of trigger.
SyncThunks == {counter, identity, constant(Num(5)), constant(pair), constant(inc)}

SyncTransforms == {inc, identity, pair, wrapArr}

SyncFlatMapFns == {fSyncOf, fSyncInc}

SyncApArgs == {SyncEffect_of(counter), SyncEffect_of(constant(Num(5)))}

TriggerArgs == {<<>>, <<Num(7)>>}

SyncOf ==
  \E thunk \in SyncThunks :
    /\ pc = "init"
    /\ box' = SyncEffect_of(thunk)
    /\ ctor' = [name |-> "SyncEffect.of", x |-> thunk]
    /\ ret' = Ret(box', st)
    /\ pc' = "of"
    /\ UNCHANGED <<prev, arg, st, steps, triggers, promised>>

SyncMap == \E f \in SyncTransforms : Composed("map", f)

SyncFlatMap == \E f \in SyncFlatMapFns : Composed("flatMap", f)

SyncAp == \E e \in SyncApArgs : Composed("ap", e)

\* box.trigger(...a)
SyncTrigger ==
  \E a \in TriggerArgs :
    /\ pc \in {"of", "map", "flatMap", "ap", "trigger"}
    /\ box.t = "SyncEffect"
    /\ triggers < MaxTriggers
    /\ \E r \in {Method(box, "trigger", a, st)} :
         /\ ret' = r
         /\ st' = r.st
    /\ pc' = "trigger"
    /\ prev' = [box |-> box, st |-> st]
    /\ arg' = Arr(a)
    /\ triggers' = triggers + 1
    /\ UNCHANGED <<box, ctor, steps, promised>>

NextSync ==
  \/ SyncOf
  \/ SyncMap
  \/ SyncFlatMap
  \/ SyncAp
  \/ SyncTrigger

SpecSync == InitContainers /\ [][NextSync]_vars

\* The calls of caller-supplied functions the last operation made.
NewCalls == SubSeq(st.log, Len(prev.st.log) + 1, Len(st.log))

\* box is SyncEffect.of(thunk).map(f) for caller-supplied thunk and f.
IsOfMap(e) ==
  /\ e.t = "SyncEffect"
  /\ e.trigger.name = "SyncEffect_mapped"
  /\ e.trigger.env[2].name \in UserNames

\* C2: SyncEffect is lazy.  Before the first trigger nothing the caller
\* supplied has run and the counter is untouched; of, map, flatMap and ap
\* never run anything, whenever they are applied; one trigger of
\* of(thunk).map(f) runs thunk once and then f once, and with a thunk that
\* increments a counter and f = x => x + 1 the counter goes from 0 to 1 and
\* the trigger returns 2.
C2_SyncLaziness ==
  /\ triggers = 0 => st = St0
  /\ pc \in {"of", "map", "flatMap", "ap"} => st = prev.st /\ ~ret.ex
  /\ pc = "trigger" /\ IsOfMap(box) =>
       /\ Len(NewCalls) = 2
       /\ NewCalls[1].f = box.trigger.env[2]
       /\ NewCalls[2].f = box.trigger.env[1]
       /\ NewCalls[2].a = <<UserCall(NewCalls[1].f, NewCalls[1].a, prev.st).v>>
       /\ ret.v = UserCall(NewCalls[2].f, NewCalls[2].a, st).v
  /\ pc = "trigger" /\ triggers = 1
       /\ box = Method(SyncEffect_of(counter), "map", <<inc>>, St0).v =>
       /\ prev.st.count = 0
       /\ st.count = 1
       /\ ret = Ret(Num(2), st)

C2_Witness ==
  /\ pc = "trigger"
  /\ triggers = 1
  /\ steps = 1
  /\ ctor.x = counter
  /\ IsOfMap(box)
  /\ box.trigger.env[1] = inc
  /\ prev.st = St0
  /\ st.count = 1
  /\ ret.v = Num(2)

-----------------------------------------------------------------------------
(* AsyncEffect: of / ofPromise, a chain of map / flatMap / ap, evaluations *)
(* started with trigger or promise, and the timers and promise jobs that   *)
(* finish them                                                             *)

\* The most evaluations of an AsyncEffect the caller starts.
MaxEvaluations == 1

Styles == {"curried", "binary"}
Timings == {"sync", "defer"}
Outcomes == {"resolve", "reject"}
Returns == {"void", "echo"}

\* What the computations resolve or reject with.
AsyncPayloads == {Num(1), pair, invoker}

AsyncComputations ==
  {computation(style, timing, "resolve", payload) :
     style \in Styles, timing \in Timings, payload \in AsyncPayloads}
  \cup {computation(style, timing, "reject", Num(1)) :
          style \in Styles, timing \in Timings}

Factories == {factory(timing, outcome, Num(1)) : timing \in Timings, outcome \in Outcomes}

AsyncTransforms == {identity, wrapArr}

AsyncFlatMapFns == {fAsyncArr, fAsyncFail}

AsyncApArgs ==
  {AsyncEffect_of(computation("curried", timing, "resolve", Num(2))) : timing \in Timings}

Built(name, x, e) ==
  /\ pc = "init"
  /\ box' = e
  /\ ctor' = [name |-> name, x |-> x]
  /\ ret' = Ret(e, st)
  /\ pc' = "of"
  /\ UNCHANGED <<prev, arg, st, steps, triggers, promised>>

AsyncOf == \E c \in AsyncComputations : Built("AsyncEffect.of", c, AsyncEffect_of(c))

AsyncOfPromise ==
  \E f \in Factories : Built("AsyncEffect.ofPromise", f, AsyncEffect_ofPromise(f))

AsyncMap == \E f \in AsyncTransforms : Composed("map", f)

AsyncFlatMap == \E f \in AsyncFlatMapFns : Composed("flatMap", f)

AsyncAp == \E e \in AsyncApArgs : Composed("ap", e)

\* The caller's step r started an evaluation or handed over a callback.
Evaluated(name, a, r) ==
  /\ \E c \in {r} :
       /\ ret' = c
       /\ st' = c.st
  /\ pc' = name
  /\ prev' = [box |-> box, st |-> st]
  /\ arg' = Arr(a)
  /\ UNCHANGED <<box, ctor, steps>>

\* box.trigger(reject): the first half of box.trigger(reject)(resolve).
GiveReject ==
  \E a \in Returns :
    /\ pc \notin {"init", "partial"}
    /\ box.t = "AsyncEffect"
    /\ triggers + promised < MaxEvaluations
    /\ Evaluated("partial", <<onReject(a)>>, Method(box, "trigger", <<onReject(a)>>, st))
    /\ UNCHANGED <<triggers, promised>>

\* ...(resolve): the second half.
GiveResolve ==
  \E b \in Returns :
    /\ pc = "partial"
    /\ ~ret.ex
    /\ arg.items[1] = onReject(b)
    /\ Evaluated("trigger", <<arg.items[1], onResolve(b)>>,
                 Call(ret.v, <<onResolve(b)>>, st))
    /\ triggers' = triggers + 1
    /\ UNCHANGED promised

\* box.trigger(reject, resolve)
TriggerBinary ==
  \E a \in Returns :
    /\ pc \notin {"init", "partial"}
    /\ box.t = "AsyncEffect"
    /\ triggers + promised < MaxEvaluations
    /\ Evaluated("trigger", <<onReject(a), onResolve(a)>>,
                 Method(box, "trigger", <<onReject(a), onResolve(a)>>, st))
    /\ triggers' = triggers + 1
    /\ UNCHANGED promised

\* box.promise()
AsyncPromise ==
  /\ pc \notin {"init", "partial"}
  /\ box.t = "AsyncEffect"
  /\ triggers + promised < MaxEvaluations
  /\ Evaluated("promise", <<>>, Method(box, "promise", <<>>, st))
  /\ promised' = promised + 1
  /\ UNCHANGED triggers

Without(seq, i) == SubSeq(seq, 1, i - 1) \o SubSeq(seq, i + 1, Len(seq))

\* A timer fires once no promise job waits; what its function throws is
\* caught by nobody.
FireTimer ==
  \E i \in 1..Len(st.timers) :
    /\ st.jobs = <<>>
    /\ \E r \in {Call(st.timers[i], <<>>, [st EXCEPT !.timers = Without(@, i)])} :
         /\ ret' = r
         /\ st' = IF r.ex THEN [r.st EXCEPT !.uncaught = Append(@, r.v)] ELSE r.st
    /\ pc' = "timer"
    /\ prev' = [box |-> box, st |-> st]
    /\ UNCHANGED <<box, arg, ctor, steps, triggers, promised>>

\* The first waiting promise job runs.
RunJob ==
  /\ st.jobs # <<>>
  /\ st' = RunPromiseJob(Head(st.jobs), [st EXCEPT !.jobs = Tail(@)])
  /\ ret' = Ret(Undef, st')
  /\ pc' = "job"
  /\ prev' = [box |-> box, st |-> st]
  /\ UNCHANGED <<box, arg, ctor, steps, triggers, promised>>

NextAsync ==
  \/ AsyncOf
  \/ AsyncOfPromise
  \/ AsyncMap
  \/ AsyncFlatMap
  \/ AsyncAp
  \/ GiveReject
  \/ GiveResolve
  \/ TriggerBinary
  \/ AsyncPromise
  \/ FireTimer
  \/ RunJob

SpecAsync == InitContainers /\ [][NextAsync]_vars

\* The calls of the caller-supplied function named name, in order.
CallsOf(name) == SelectSeq(st.log, LAMBDA e : e.f.name = name)

Quiescent == st.timers = <<>> /\ st.jobs = <<>>

\* C3: AsyncEffect is lazy.  Until trigger holds both callbacks or promise
\* is called, nothing has run: no computation, promise factory, transform
\* or callback was called, no timer set and no promise created; of,
\* ofPromise, map, flatMap, ap and trigger given reject alone never run
\* anything, whenever they are applied, and trigger given reject alone
\* returns a function.
C3_AsyncLaziness ==
  /\ triggers = 0 /\ promised = 0 => st = St0
  /\ pc \in {"of", "map", "flatMap", "ap", "partial"} => st = prev.st /\ ~ret.ex
  /\ pc = "partial" => isFunction(ret.v)

C3_Witness ==
  /\ pc = "trigger"
  /\ triggers = 1
  /\ steps = 2
  /\ prev.st = St0
  /\ Len(st.log) >= 3
  /\ Len(CallsOf("onResolve")) = 1

\* C4: an effect triggered once calls exactly one of the two callbacks,
\* exactly once: never more than one call while the evaluation runs, and
\* one call when it is over.
C4_ExactlyOneCallback ==
  triggers = 1 /\ promised = 0 =>
    /\ Len(CallsOf("onReject")) + Len(CallsOf("onResolve")) <= 1
    /\ Quiescent => Len(CallsOf("onReject")) + Len(CallsOf("onResolve")) = 1

-----------------------------------------------------------------------------
(* mergeAsyncEffects over effects that all resolve *)

\* The most effects merged.
MaxMergeAsync == 3

ResolvingEffects ==
  {AsyncEffect_of(computation(style, timing, "resolve", payload)) :
     style \in Styles, timing \in Timings, payload \in {Str("a"), Str("b")}}

MergeAsync ==
  /\ pc = "init"
  /\ \E es \in SeqsUpTo(ResolvingEffects, MaxMergeAsync) :
    Built("mergeAsyncEffects", Arr(es), mergeAsyncEffects(es))

NextMergeAsync ==
  \/ MergeAsync
  \/ GiveReject
  \/ GiveResolve
  \/ TriggerBinary
  \/ FireTimer
  \/ RunJob

SpecMergeAsync == InitContainers /\ [][NextMergeAsync]_vars

\* The payload of the computation AsyncEffect.of(computation) wraps.
PayloadOf(e) == e.trigger.env[1].env[1].env[4]

\* C10: mergeAsyncEffects(e1..en) over resolving effects, triggered once,
\* never calls the reject callback and calls the resolve callback at most
\* once; when it calls it, every input has resolved (no timer is pending
\* and the promise of every input is fulfilled) and the argument is the
\* list of the inputs' payloads in argument order, in whatever order the
\* timers fired; and once no timer and no promise job is left it has called
\* it.  With no input the list is empty.
C10_MergeAllResolve ==
  LET inputs == ctor.x.items
      n == Len(inputs)
      resolved == CallsOf("onResolve")
  IN  ctor.name = "mergeAsyncEffects" /\ triggers <= 1 =>
        /\ CallsOf("onReject") = <<>>
        /\ st.uncaught = <<>>
        /\ Len(resolved) <= 1
        /\ Len(resolved) = 1 =>
             /\ st.timers = <<>>
             /\ \A i \in 1..n : st.promises[i].state = "fulfilled"
             /\ resolved[1].a = <<Arr([i \in 1..n |-> PayloadOf(inputs[i])])>>
        /\ triggers = 1 /\ Quiescent => Len(resolved) = 1

\* Two inputs settle from timers in the order opposite to the arguments'.
C10_Witness ==
  /\ ctor.name = "mergeAsyncEffects"
  /\ Len(ctor.x.items) = 2
  /\ Len(CallsOf("later")) = 2
  /\ CallsOf("later")[1].f.env[2] = Str("b")
  /\ CallsOf("later")[2].f.env[2] = Str("a")
  /\ Len(CallsOf("onResolve")) = 1
  /\ CallsOf("onResolve")[1].a = <<Arr(<<Str("a"), Str("b")>>)>>

-----------------------------------------------------------------------------
(* mergeAsyncEffects over effects of which at least one rejects *)

SettlingEffects ==
  {AsyncEffect_of(computation("curried", timing, outcome, payload)) :
     timing \in Timings, outcome \in Outcomes, payload \in {Str("a"), Str("b")}}
  \cup {AsyncEffect_of(computation("binary", timing, outcome, Str("a"))) :
          timing \in Timings, outcome \in Outcomes}

\* The outcome ("resolve" or "reject") of the computation AsyncEffect.of wraps.
OutcomeOf(e) == e.trigger.env[1].env[1].env[3].s

TimingOf(e) == e.trigger.env[1].env[1].env[2].s

MergeAsyncRejecting ==
  /\ pc = "init"
  /\ \E es \in SeqsUpTo(SettlingEffects, MaxMergeAsync) :
    /\ \E i \in 1..Len(es) : OutcomeOf(es[i]) = "reject"
    /\ Built("mergeAsyncEffects", Arr(es), mergeAsyncEffects(es))

NextMergeReject ==
  \/ MergeAsyncRejecting
  \/ GiveReject
  \/ GiveResolve
  \/ TriggerBinary
  \/ FireTimer
  \/ RunJob

SpecMergeReject == InitContainers /\ [][NextMergeReject]_vars

\* A logged call in which a computation calls reject: the body of a
\* computation that settles at once, or the function of its timer.
IsRejection(e) ==
  \/ /\ e.f.name = "computation"
     /\ e.f.env[1].s = "binary" /\ e.f.env[2].s = "sync" /\ e.f.env[3].s = "reject"
  \/ /\ e.f.name = "computationResolve"
     /\ e.f.env[2].s = "sync" /\ e.f.env[3].s = "reject"
  \/ /\ e.f.name = "later"
     /\ e.f.env[1].name = "promiseReject"

RejectionPayload(e) == IF e.f.name = "later" THEN e.f.env[2] ELSE e.f.env[4]

\* The rejections of the inputs, in the order they happened.
Rejections == SelectSeq(st.log, IsRejection)

\* C11: mergeAsyncEffects(e1..en) with at least one rejecting input,
\* triggered once, never calls the resolve callback and calls the reject
\* callback at most once; when it calls it, the argument is the payload of
\* the input that rejected first, which is the leftmost rejecting argument
\* when some input rejects at once; and once no timer and no promise job is
\* left it has called it, however many inputs reject and whatever the
\* other inputs do before or after.
C11_MergeFirstRejection ==
  LET inputs == ctor.x.items
      rejected == CallsOf("onReject")
      atOnce == {i \in 1..Len(inputs) :
                   OutcomeOf(inputs[i]) = "reject" /\ TimingOf(inputs[i]) = "sync"}
  IN  ctor.name = "mergeAsyncEffects" /\ triggers <= 1 =>
        /\ CallsOf("onResolve") = <<>>
        /\ st.uncaught = <<>>
        /\ Len(rejected) <= 1
        /\ Len(rejected) = 1 =>
             /\ Rejections # <<>>
             /\ rejected[1].a = <<RejectionPayload(Rejections[1])>>
             /\ atOnce # {} =>
                  rejected[1].a =
                    <<PayloadOf(inputs[CHOOSE i \in atOnce : \A j \in atOnce : i <= j])>>
        /\ triggers = 1 /\ Quiescent => Len(rejected) = 1

\* Two inputs reject from timers, the second argument first, and a third
\* resolves at once.
C11_Witness ==
  /\ ctor.name = "mergeAsyncEffects"
  /\ Len(ctor.x.items) = 3
  /\ OutcomeOf(ctor.x.items[3]) = "resolve"
  /\ Len(Rejections) = 2
  /\ RejectionPayload(Rejections[1]) = Str("b")
  /\ PayloadOf(ctor.x.items[1]) = Str("a")
  /\ PayloadOf(ctor.x.items[2]) = Str("b")
  /\ Quiescent
  /\ CallsOf("onReject")[1].a = <<Str("b")>>

-----------------------------------------------------------------------------
(* AsyncEffect.of(first).flatMap(f), triggered *)

\* The computations of the first effect.
FlatMapFirsts ==
  {computation(style, timing, outcome, payload) :
     style \in Styles, timing \in Timings, outcome \in Outcomes,
     payload \in {Num(1), pair}}

\* AsyncEffect.of(c).flatMap(f)
AsyncFlatMapped ==
  \E c \in FlatMapFirsts, f \in AsyncFlatMapFns :
    Built("AsyncEffect.flatMap", Arr(<<c, f>>),
          Method(AsyncEffect_of(c), "flatMap", <<f>>, St0).v)

NextFlatMapAsync ==
  \/ AsyncFlatMapped
  \/ GiveReject
  \/ GiveResolve
  \/ TriggerBinary
  \/ FireTimer

SpecFlatMapAsync == InitContainers /\ [][NextFlatMapAsync]_vars

\* The call during which the computation c hands its payload to a callback.
IsSettleOf(c, e) ==
  IF c.env[2].s = "defer" THEN e.f.name = "later" /\ e.f.env[2] = c.env[4]
  ELSE IF c.env[1].s = "binary" THEN e.f = c
  ELSE e.f.name = "computationResolve" /\ SubSeq(e.f.env, 1, 4) = c.env

\* A call of the computation of the effect f returned for x, or of its timer.
IsSecondOf(x, e) ==
  \/ e.f.name \in {"computation", "computationResolve"} /\ e.f.env[4] = Arr(<<x>>)
  \/ e.f.name = "later" /\ e.f.env[2] = Arr(<<x>>)

\* C12: first.flatMap(f), triggered once.  f is called, and the effect it
\* returns is started, only after first has resolved, f at most once and
\* with first's payload; the outer callbacks get the outcome of the effect
\* f returned; when first rejects f is never called, no second effect
\* starts, resolve is never called and reject gets first's payload
\* unchanged; in each case the outer callback has been called once when
\* no timer is left.
C12_FlatMapSequencing ==
  LET first == ctor.x.items[1]
      f == ctor.x.items[2]
      payload == first.env[4]
      log == st.log
      fCalls == {i \in 1..Len(log) : log[i].f = f}
      settles == {i \in 1..Len(log) : IsSettleOf(first, log[i])}
      seconds == {i \in 1..Len(log) : IsSecondOf(payload, log[i])}
      rejected == CallsOf("onReject")
      resolved == CallsOf("onResolve")
      over == triggers = 1 /\ Quiescent
  IN  ctor.name = "AsyncEffect.flatMap" /\ triggers <= 1 =>
        /\ st.uncaught = <<>>
        /\ Cardinality(fCalls) <= 1
        /\ \A i \in fCalls :
             /\ log[i].a = <<payload>>
             /\ first.env[3].s = "resolve"
             /\ \E j \in settles : j < i
        /\ \A i \in seconds : \E j \in fCalls : j < i
        /\ Len(rejected) + Len(resolved) <= 1
        /\ over => Len(rejected) + Len(resolved) = 1
        /\ over /\ first.env[3].s = "resolve" => fCalls # {} /\ seconds # {}
        /\ first.env[3].s = "reject" =>
             /\ fCalls = {} /\ seconds = {} /\ resolved = <<>>
             /\ \A i \in 1..Len(rejected) : rejected[i].a = <<payload>>
        /\ first.env[3].s = "resolve" /\ f = fAsyncArr =>
             /\ rejected = <<>>
             /\ \A i \in 1..Len(resolved) : resolved[i].a = <<Arr(<<payload>>)>>
        /\ first.env[3].s = "resolve" /\ f = fAsyncFail =>
             /\ resolved = <<>>
             /\ \A i \in 1..Len(rejected) : rejected[i].a = <<Arr(<<payload>>)>>

\* first resolves from a timer, then the effect f returned rejects from
\* another one.
C12_Witness ==
  /\ ctor.name = "AsyncEffect.flatMap"
  /\ ctor.x.items[1].env[2].s = "defer"
  /\ ctor.x.items[1].env[3].s = "resolve"
  /\ ctor.x.items[2] = fAsyncFail
  /\ triggers = 1
  /\ Quiescent
  /\ Len(CallsOf("fAsyncFail")) = 1
  /\ Len(CallsOf("onReject")) = 1

-----------------------------------------------------------------------------
(* AsyncEffect.of over a function that throws *)

ThrownValues == {Str("I am a thrown error."), Error("boom"), Error(""), Null, identity}

\* throwing, (reject, resolve) => { throw e; } and reject => resolve => { throw e; }
AsyncThrowers ==
  {thrower("first", len, e) : len \in {0, 2}, e \in ThrownValues}
  \cup {thrower("second", 1, e) : e \in ThrownValues}

AsyncOfThrowing == \E c \in AsyncThrowers : Built("AsyncEffect.of", c, AsyncEffect_of(c))

NextAsyncThrow ==
  \/ AsyncOfThrowing
  \/ AsyncMap
  \/ AsyncFlatMap
  \/ GiveReject
  \/ GiveResolve
  \/ TriggerBinary

SpecAsyncThrow == InitContainers /\ [][NextAsyncThrow]_vars

\* C13: an effect over a function that throws e when it is run, before it
\* called a callback, alone or under map and flatMap, triggered in either
\* way: neither half of the trigger throws to its caller, resolve is never
\* called, no transform is called, and once triggered reject has been
\* called exactly once, with e.
C13_SyncThrowRejects ==
  ctor.name = "AsyncEffect.of" /\ ctor.x.name = "thrower" /\ triggers <= 1 =>
    /\ pc \in {"partial", "trigger"} => ~ret.ex
    /\ CallsOf("onResolve") = <<>>
    /\ \A f \in AsyncTransforms \cup AsyncFlatMapFns : CallsOf(f.name) = <<>>
    /\ triggers = 0 => CallsOf("onReject") = <<>>
    /\ triggers = 1 =>
         /\ Len(CallsOf("onReject")) = 1
         /\ CallsOf("onReject")[1].a = <<ctor.x.env[2]>>

\* reject => resolve => { throw null; } under a map, triggered in two halves.
C13_Witness ==
  /\ ctor.name = "AsyncEffect.of"
  /\ ctor.x = thrower("second", 1, Null)
  /\ steps >= 1
  /\ pc = "trigger"
  /\ prev.st = St0
  /\ CallsOf("onReject")[1].a = <<Null>>

-----------------------------------------------------------------------------
(* Effects triggered more than once *)

\* The computations whose executions are counted: () => ++count, a thunk
\* that throws, and the two asyncCounter.
CountedThunks == {counter, throwing}

CountedComputations == {asyncCounter(timing) : timing \in Timings}

SyncOfCounted ==
  \E thunk \in CountedThunks : Built("SyncEffect.of", thunk, SyncEffect_of(thunk))

AsyncOfCounted ==
  \E c \in CountedComputations : Built("AsyncEffect.of", c, AsyncEffect_of(c))

SyncMapAgain == box.t = "SyncEffect" /\ SyncMap

SyncFlatMapAgain == box.t = "SyncEffect" /\ SyncFlatMap

SyncApAgain == box.t = "SyncEffect" /\ Composed("ap", SyncEffect_of(constant(Num(5))))

AsyncMapAgain == box.t = "AsyncEffect" /\ AsyncMap

AsyncFlatMapAgain == box.t = "AsyncEffect" /\ AsyncFlatMap

AsyncApAgain == box.t = "AsyncEffect" /\ AsyncAp

\* The callbacks the caller gives to the k-th trigger.
onRejectOf(k) == Fn("onReject", 1, <<Str("void"), Num(k)>>)
onResolveOf(k) == Fn("onResolve", 1, <<Str("void"), Num(k)>>)

\* box.trigger(reject)(resolve) or box.trigger(reject, resolve), again and again.
AsyncTriggerAgain ==
  \E style \in Styles :
    /\ pc # "init"
    /\ box.t = "AsyncEffect"
    /\ triggers < MaxTriggers
    /\ Evaluated("trigger", <<onRejectOf(triggers + 1), onResolveOf(triggers + 1)>>,
                 IF style = "binary"
                 THEN Method(box, "trigger",
                             <<onRejectOf(triggers + 1), onResolveOf(triggers + 1)>>, st)
                 ELSE Triggered(box.trigger, onRejectOf(triggers + 1),
                                onResolveOf(triggers + 1), st))
    /\ triggers' = triggers + 1
    /\ UNCHANGED promised

NextAgain ==
  \/ SyncOfCounted
  \/ AsyncOfCounted
  \/ SyncMapAgain
  \/ SyncFlatMapAgain
  \/ SyncApAgain
  \/ AsyncMapAgain
  \/ AsyncFlatMapAgain
  \/ AsyncApAgain
  \/ SyncTrigger
  \/ AsyncTriggerAgain
  \/ FireTimer

SpecAgain == InitContainers /\ [][NextAgain]_vars

\* The calls of the wrapped computation.
Executions == SelectSeq(st.log, LAMBDA e : e.f = ctor.x)

RECURSIVE Carries(_, _)
\* v is the number k, or k wrapped in one-element lists.
Carries(v, k) ==
  \/ v = Num(k)
  \/ v.t = "array" /\ Len(v.items) = 1 /\ Carries(v.items[1], k)

\* C14: nothing is cached.  However an effect is composed and triggered,
\* its wrapped computation has run once for each trigger so far.  The k-th
\* trigger of a SyncEffect over () => ++count moves the counter to k, hands
\* k to the first transform and, uncomposed, returns k.  Each callback
\* given to the k-th trigger of an AsyncEffect over a computation that
\* resolves with the number of its execution gets k, wrapped as the
\* transforms wrap it, or an error, and never the number of another
\* execution; uncomposed, with no timer left, every trigger's resolve has
\* been called once and no reject.
C14_NoCaching ==
  ctor.name \in {"SyncEffect.of", "AsyncEffect.of"} =>
    /\ Len(Executions) = triggers
    /\ ctor.x \in {counter} \cup CountedComputations => st.count = triggers
    /\ ctor.x = counter /\ pc = "trigger" =>
         /\ NewCalls # <<>> /\ NewCalls[1].f = counter
         /\ steps = 0 => ret = Ret(Num(triggers), st)
         /\ Len(NewCalls) >= 2 /\ NewCalls[2].f \in SyncTransforms \cup SyncFlatMapFns =>
              NewCalls[2].a = <<Num(triggers)>>
    /\ ctor.name = "AsyncEffect.of" =>
         /\ \A i \in 1..Len(st.log) :
              st.log[i].f.name \in {"onReject", "onResolve"} =>
                \/ st.log[i].a[1].t = "error"
                \/ Carries(st.log[i].a[1], st.log[i].f.env[2].n)
         /\ steps = 0 /\ Quiescent =>
              /\ CallsOf("onReject") = <<>>
              /\ Len(CallsOf("onResolve")) = triggers
              /\ \A k \in 1..triggers :
                   \E i \in 1..Len(st.log) :
                     st.log[i] = [f |-> onResolveOf(k), a |-> <<Num(k)>>]

\* A deferred effect under a map, triggered twice; the second execution's
\* timer fired first.
C14_Witness ==
  /\ ctor.name = "AsyncEffect.of"
  /\ ctor.x = asyncCounter("defer")
  /\ steps = 1
  /\ triggers = 2
  /\ Quiescent
  /\ Len(CallsOf("onResolve")) = 2
  /\ CallsOf("onResolve")[1] = [f |-> onResolveOf(2), a |-> <<Arr(<<Num(2)>>)>>]
  /\ CallsOf("onResolve")[2] = [f |-> onResolveOf(1), a |-> <<Arr(<<Num(1)>>)>>]

-----------------------------------------------------------------------------
(* Either.try *)

\* What the thunks throw.
TryThrown ==
  {Str("I am an error."), Error("I am an error."), Error(""), Null, Undef,
   Num(0), Str(""), Num(3), Bool(FALSE), Arr(<<>>),
   Obj("Object", <<<<"message", Str("m")>>>>)}

\* () => v and () => { throw e; }
TryThunks ==
  {constant(v) : v \in JSValues} \cup {thrower("first", 0, e) : e \in TryThrown}

\* Either.try(thunk)
Try ==
  \E thunk \in TryThunks : Converted("Either.try", thunk, Either_try(thunk, st), "ctor")

NextTry ==
  \/ Try
  \/ OpMap
  \/ OpFlatMap
  \/ OpAp

SpecTry == InitContainers /\ [][NextTry]_vars

\* e.message when e has one that is not empty, else e.
MessageOr(e) ==
  CASE e.t = "error" /\ e.message # "" -> Str(e.message)
    [] e.t = "object" /\ Truthy(OwnProp(e, "message")) -> OwnProp(e, "message")
    [] OTHER -> e

\* C15: Either.try(thunk) calls thunk once, at once, and returns an Either
\* whatever thunk does: Success(result) when it returns, and when it throws
\* e (a string, an Error, an Error with an empty message, null, undefined, 0,
\* '', ...) a Failure of e.message when that is not empty and of e otherwise.
C15_TryAlwaysEither ==
  ctor.name = "Either.try" /\ pc = "ctor" =>
    /\ st.log = <<[f |-> ctor.x, a |-> <<>>]>>
    /\ ~ret.ex
    /\ ctor.x.name = "constant" => box = Success(ctor.x.env[1])
    /\ ctor.x.name = "thrower" => box = Failure(MessageOr(ctor.x.env[2]))

-----------------------------------------------------------------------------
(* nary over curried functions *)

\* The most stages a curried function has.
MaxStages == 4

NaryArgs == {Str("a"), Str("b"), Num(1)}

RECURSIVE SumOf(_, _)
SumOf(sizes, i) == IF i > Len(sizes) THEN 0 ELSE sizes[i] + SumOf(sizes, i + 1)

\* The ways of cutting n arguments into consecutive groups: the sizes of
\* the groups, in order.
Splits(n) == {sizes \in SeqsUpTo(1..n, n) : sizes # <<>> /\ SumOf(sizes, 1) = n}

RECURSIVE ApplyGroups(_, _, _, _, _)
\* acc(group i)(group i + 1)..., the groups cut from args after the first
\* offset arguments.
ApplyGroups(acc, args, sizes, i, offset) ==
  IF i > Len(sizes) THEN acc
  ELSE Then(Call(acc.v, SubSeq(args, offset + 1, offset + sizes[i]), acc.st),
            LAMBDA r : ApplyGroups(r, args, sizes, i + 1, offset + sizes[i]))

\* nary(fn)(a1, ..)(..)..(.., an) for a curried fn of n stages.
NaryCalled ==
  \E n \in 2..MaxStages :
    \E args \in [1..n -> NaryArgs], sizes \in Splits(n) :
      /\ pc = "init"
      /\ \E r \in {ApplyGroups(Ret(nary(curried(n, <<>>)), st), args, sizes, 1, 0)} :
           /\ ret' = r
           /\ st' = r.st
           /\ box' = IF r.ex THEN [t |-> "thrown", value |-> r.v] ELSE r.v
      /\ ctor' = [name |-> "nary", x |-> Arr(args)]
      /\ arg' = Arr([i \in 1..Len(sizes) |-> Num(sizes[i])])
      /\ pc' = "nary"
      /\ UNCHANGED <<prev, steps, triggers, promised>>

NextNary == NaryCalled

SpecNary == InitContainers /\ [][NextNary]_vars

\* fn(a1)(a2)..(an)
FullyCurried(args) ==
  ApplyGroups(Ret(curried(Len(args), <<>>), St0), args, [i \in 1..Len(args) |-> 1], 1, 0)

\* Only the first group holds more than one argument.
FirstGroupOnly(sizes) == \A i \in 2..Len(sizes) : sizes[i].n = 1

\* C16 as stated: every split of a1..an into consecutive groups gives
\* nary(fn) the result of fn(a1)(a2)..(an).
C16_NaryAnySplit ==
  pc = "nary" => ~ret.ex /\ ret.v = FullyCurried(ctor.x.items).v

\* C16, amended: nary(fn) gives the result of fn(a1)(a2)..(an) exactly for
\* the splits whose groups after the first hold one argument each: fully
\* curried, all at once, (a1, a2)(a3), (a1, a2, a3)(a4), ...  A later
\* group of more than one argument, as in (a1)(a2, a3), reaches a stage of
\* fn itself, which takes the group's first argument and drops the rest,
\* so the call ends with a function still waiting for arguments.
C16_NaryFirstGroup ==
  pc = "nary" =>
    /\ ~ret.ex
    /\ FirstGroupOnly(arg.items) <=> ret.v = FullyCurried(ctor.x.items).v
    /\ ~FirstGroupOnly(arg.items) => isFunction(ret.v)

\* (a1, a2)(a3): a mixed split that works.
C16_Witness ==
  /\ pc = "nary"
  /\ arg.items = <<Num(2), Num(1)>>
  /\ ctor.x.items = <<Str("a"), Num(1), Str("b")>>
  /\ ret.v = Str("a1b")

-----------------------------------------------------------------------------
(* Maybes from every public operation *)

\* The Eithers the caller converts.
ConvertedEithers == {Success(x) : x \in JSValues} \cup {Failure(x) : x \in JSValues}

\* The Maybes the caller merges.
MergedMaybes == {Nothing, Just(Str("a")), Just(Null)}

\* The thunks of the effects the caller converts.
ConvertedThunks == {constant(x) : x \in JSValues} \cup {throwing}

DoEitherToMaybe ==
  \E e \in ConvertedEithers : Converted("eitherToMaybe", e, eitherToMaybe(e, st), "ctor")

DoMergeMaybes ==
  /\ pc = "init"
  /\ \E ms \in SeqsUpTo(MergedMaybes, MaxMerge) :
       Converted("mergeMaybes", Arr(ms), mergeMaybes(ms, st), "ctor")

DoSyncEffectToMaybe ==
  \E thunk \in ConvertedThunks :
    Converted("syncEffectToMaybe", thunk, syncEffectToMaybe(SyncEffect_of(thunk), st), "ctor")

\* box.flatMap(a => Just(a))
OpFlatMapJust == Applied("flatMap", fJust)

NextMaybe ==
  \/ CtorMaybeOf
  \/ CtorJust
  \/ CtorNothing
  \/ DoEitherToMaybe
  \/ DoMergeMaybes
  \/ DoSyncEffectToMaybe
  \/ OpMap
  \/ OpFlatMap
  \/ OpFlatMapJust
  \/ OpAp

SpecMaybe == InitContainers /\ [][NextMaybe]_vars

\* C17: eitherToMaybe(Success(x)) is Nothing for null, undefined, '', []
\* and {} and Just(x) for every other x; eitherToMaybe(Failure(e)) is
\* Nothing, whose value is null, for every e.
C17_EitherToMaybe ==
  pc = "ctor" /\ ctor.name = "eitherToMaybe" =>
    /\ ~ret.ex
    /\ ctor.x.t = "Success" /\ ctor.x.value \in EmptyInputs => box = Nothing
    /\ ctor.x.t = "Success" /\ ctor.x.value \notin EmptyInputs => box = Just(ctor.x.value)
    /\ ctor.x.t = "Failure" => box = Nothing /\ box.value = Null

-----------------------------------------------------------------------------
(* Conversions out of Maybe *)

\* The Maybes the caller converts.
ConvertedMaybes == {Nothing} \cup {Just(x) : x \in JSValues}

DoMaybeToEither ==
  \E m \in ConvertedMaybes : Converted("maybeToEither", m, maybeToEither(m, st), "ctor")

DoMaybeToSyncEffect ==
  \E m \in ConvertedMaybes :
    Converted("maybeToSyncEffect", m, maybeToSyncEffect(m, st), "of")

DoMaybeToAsyncEffect ==
  \E m \in ConvertedMaybes :
    Converted("maybeToAsyncEffect", m, maybeToAsyncEffect(m, st), "of")

NextConvert ==
  \/ DoMaybeToEither
  \/ DoMaybeToSyncEffect
  \/ DoMaybeToAsyncEffect
  \/ SyncTrigger
  \/ GiveReject
  \/ GiveResolve
  \/ TriggerBinary

SpecConvert == InitContainers /\ [][NextConvert]_vars

\* C18: maybeToEither(Nothing) is Failure('Maybe is Nothing.') and
\* maybeToEither(Just(v)) is Success(v).  maybeToSyncEffect and
\* maybeToAsyncEffect run nothing and throw nothing when they convert; the
\* effect of Nothing throws 'Maybe is Nothing.' at each trigger and the
\* effect of Just(v) returns v; the asynchronous effect of Nothing, once
\* triggered, has called reject with 'Maybe is Nothing.' and never
\* resolve, the one of Just(v) has called resolve with v and never
\* reject, and no half of a trigger throws.
C18_MaybeConversions ==
  LET absent == ctor.x.t = "Nothing"
      message == Str("Maybe is Nothing.")
      rejected == CallsOf("onReject")
      resolved == CallsOf("onResolve")
  IN  /\ ctor.name = "maybeToEither" =>
           ret = Ret(IF absent THEN Failure(message) ELSE Success(ctor.x.value), St0)
      /\ ctor.name = "maybeToSyncEffect" =>
           /\ pc = "of" => ~ret.ex /\ st = St0 /\ box.t = "SyncEffect"
           /\ pc = "trigger" =>
                ret = IF absent THEN Throw(message, st) ELSE Ret(ctor.x.value, st)
      /\ ctor.name = "maybeToAsyncEffect" =>
           /\ pc = "of" => ~ret.ex /\ box.t = "AsyncEffect"
           /\ pc \in {"partial", "trigger"} => ~ret.ex
           /\ triggers = 0 => st = St0
           /\ absent =>
                /\ resolved = <<>>
                /\ Len(rejected) = triggers
                /\ \A i \in 1..Len(rejected) : rejected[i].a = <<message>>
           /\ ~absent =>
                /\ rejected = <<>>
                /\ Len(resolved) = triggers
                /\ \A i \in 1..Len(resolved) : resolved[i].a = <<ctor.x.value>>

\* maybeToAsyncEffect(Nothing), triggered in two halves.
C18_Witness ==
  /\ ctor.name = "maybeToAsyncEffect"
  /\ ctor.x = Nothing
  /\ pc = "trigger"
  /\ prev.st = St0
  /\ CallsOf("onReject") = <<[f |-> onReject("void"), a |-> <<Str("Maybe is Nothing.")>>]>>

-----------------------------------------------------------------------------
(* mergeMaybes *)

\* C19: mergeMaybes(m1, .., mn) is Just of the list of the inputs' values,
\* in input order, when every input is a Just (Just([]) for no input), and
\* Nothing as soon as one input is Nothing, wherever it stands and
\* whatever stands before and after it.
C19_MergeMaybes ==
  pc = "ctor" /\ ctor.name = "mergeMaybes" =>
    LET maybes == ctor.x.items
    IN  /\ ~ret.ex
        /\ st = St0
        /\ IF \A i \in 1..Len(maybes) : maybes[i].t = "Just"
           THEN box = Just(Arr([i \in 1..Len(maybes) |-> maybes[i].value]))
           ELSE box = Nothing

\* A Nothing between two Justs.
C19_Witness ==
  /\ pc = "ctor"
  /\ ctor.name = "mergeMaybes"
  /\ ctor.x.items = <<Just(Str("a")), Nothing, Just(Null)>>
  /\ box = Nothing

-----------------------------------------------------------------------------
(* What a Just holds *)

\* C20 as stated: whatever public operation made it, a Maybe that reports
\* isJust() holds a value isNothing does not classify as nothing.
C20_PresentInvariant == box.t = "Just" => ~isNothing(box.value)

\* C20, amended: a Just holds a value isNothing does not classify as
\* nothing when it comes from Maybe.of, map, ap, eitherToMaybe,
\* syncEffectToMaybe, mergeMaybes of at least one input, or flatMap with a
\* transform that builds its result with one of these.  The direct
\* constructor wraps anything, so Just(null), what a => Just(a) returns to
\* flatMap, and the Just([]) of mergeMaybes() hold values classified as
\* nothing.
C20_PresentUnlessDirect ==
  box.t = "Just" /\ isNothing(box.value) =>
    \/ pc = "ctor" /\ ctor.name = "Just"
    \/ pc = "ctor" /\ ctor.name = "mergeMaybes" /\ ctor.x.items = <<>>
    \/ pc = "flatMap" /\ arg = fJust

\* Just(null).map(a => [a]) is Just([null]).
C20_Witness ==
  /\ ctor.name = "Just"
  /\ ctor.x = Null
  /\ pc = "map"
  /\ steps = 1
  /\ box = Just(Arr(<<Null>>))

-----------------------------------------------------------------------------
(* Promise interop: one effect evaluated with trigger, with promise().then *)
(* and through AsyncEffect.ofPromise(() => effect.promise())               *)

\* The effects evaluated: computations and promise factories that settle
\* once with a payload that is no promise, and computations that throw.
InteropComputations ==
  {computation(style, timing, outcome, Num(1)) :
     style \in Styles, timing \in Timings, outcome \in Outcomes}
  \cup {thrower("first", 1, Str("t")), thrower("second", 1, Error("boom"))}

InteropOf == \E c \in InteropComputations : Built("AsyncEffect.of", c, AsyncEffect_of(c))

\* The evaluations of AsyncEffect.ofPromise(() => box.promise()) so far.
RoundTrips == Len(CallsOf("promiseOf"))

\* map, before the first evaluation.
InteropMap ==
  /\ triggers = 0
  /\ promised = 0
  /\ RoundTrips = 0
  /\ AsyncMap

\* box.trigger(onReject)(onResolve) or box.trigger(onReject, onResolve)
InteropTrigger ==
  \E style \in Styles :
    /\ pc # "init"
    /\ box.t = "AsyncEffect"
    /\ triggers = 0
    /\ Evaluated("trigger", <<onRejectOf(1), onResolveOf(1)>>,
                 IF style = "binary"
                 THEN Method(box, "trigger", <<onRejectOf(1), onResolveOf(1)>>, st)
                 ELSE Triggered(box.trigger, onRejectOf(1), onResolveOf(1), st))
    /\ triggers' = 1
    /\ UNCHANGED promised

\* AsyncEffect.ofPromise(() => box.promise()).trigger(onReject)(onResolve)
InteropRoundTrip ==
  /\ pc # "init"
  /\ box.t = "AsyncEffect"
  /\ RoundTrips = 0
  /\ Evaluated("roundTrip", <<onRejectOf(2), onResolveOf(2)>>,
               Triggered(AsyncEffect_ofPromise(promiseOf(box)).trigger,
                         onRejectOf(2), onResolveOf(2), st))
  /\ UNCHANGED <<triggers, promised>>

\* box.promise().then(onResolve, onReject)
InteropPromise ==
  /\ pc # "init"
  /\ box.t = "AsyncEffect"
  /\ promised = 0
  /\ Evaluated("promise", <<onResolveOf(3), onRejectOf(3)>>,
               Then(Method(box, "promise", <<>>, st), LAMBDA p :
                 PromiseThen(p.v, onResolveOf(3), onRejectOf(3), p.st)))
  /\ promised' = 1
  /\ UNCHANGED triggers

NextInterop ==
  \/ InteropOf
  \/ AsyncOfPromise
  \/ InteropMap
  \/ InteropTrigger
  \/ InteropRoundTrip
  \/ InteropPromise
  \/ FireTimer
  \/ RunJob

SpecInterop == InitContainers /\ [][NextInterop]_vars

\* The arguments of the calls of the k-th evaluation's callback, in order.
CallbackArgs(name, k) ==
  LET calls == SelectSeq(st.log, LAMBDA e : e.f = Fn(name, 1, <<Str("void"), Num(k)>>))
  IN  [i \in 1..Len(calls) |-> calls[i].a]

\* The k-th evaluation settled as the first one did.
SameOutcome(k) ==
  /\ Len(CallbackArgs("onReject", 1)) + Len(CallbackArgs("onResolve", 1)) = 1
  /\ CallbackArgs("onReject", k) = CallbackArgs("onReject", 1)
  /\ CallbackArgs("onResolve", k) = CallbackArgs("onResolve", 1)

\* C21: promise interop preserves the outcome in both directions.  With
\* every timer fired and every promise job run: the promise of
\* effect.promise() is fulfilled with v exactly when a trigger of effect
\* calls resolve with v, and rejected with e exactly when it calls reject
\* with e; AsyncEffect.ofPromise(factory) calls factory once in each
\* evaluation and, triggered, calls resolve with what the factory's promise
\* is fulfilled with and never reject, or reject with what it is rejected
\* with and never resolve; and AsyncEffect.ofPromise(() => effect.promise())
\* calls the callback effect calls, with the same payload.
C21_PromiseInterop ==
  /\ ctor.name = "AsyncEffect.ofPromise" =>
       /\ Len(Executions) = triggers + promised + RoundTrips
       /\ triggers = 1 /\ steps = 0 /\ Quiescent =>
            LET called == IF ctor.x.env[2].s = "resolve" THEN "onResolve" ELSE "onReject"
                other == IF ctor.x.env[2].s = "resolve" THEN "onReject" ELSE "onResolve"
            IN  /\ CallbackArgs(called, 1) = << <<ctor.x.env[3]>> >>
                /\ CallbackArgs(other, 1) = <<>>
  /\ triggers = 1 /\ promised = 1 /\ Quiescent => SameOutcome(3)
  /\ triggers = 1 /\ RoundTrips = 1 /\ Quiescent => SameOutcome(2)

\* A computation that rejects from a timer, under a map, evaluated in the
\* three ways: each evaluation's reject got the payload.
C21_Witness ==
  /\ ctor.name = "AsyncEffect.of"
  /\ ctor.x = computation("curried", "defer", "reject", Num(1))
  /\ steps = 1
  /\ triggers = 1
  /\ promised = 1
  /\ RoundTrips = 1
  /\ Quiescent
  /\ CallbackArgs("onReject", 1) = << <<Num(1)>> >>
  /\ CallbackArgs("onReject", 2) = << <<Num(1)>> >>
  /\ CallbackArgs("onReject", 3) = << <<Num(1)>> >>
  /\ CallbackArgs("onResolve", 3) = <<>>

-----------------------------------------------------------------------------
(* Maybe.map classifies its result, checked under SpecContainers *)

\* C22: Maybe.map re-classifies.  Just(v).map(f) calls f once, with v, and
\* is Maybe.of(f(v)): Nothing whenever f(v) is null, undefined, '', [] or
\* {}.  Every map, flatMap and ap applied to the Nothing this gives is
\* skipped (no caller-supplied function runs) and gives Nothing again,
\* whatever the transform would make of the empty value.
C22_MapReclassifies ==
  /\ (pc = "map" /\ prev.box.t = "Just") =>
       /\ NewCalls = <<[f |-> arg, a |-> <<prev.box.value>>]>>
       /\ \E fv \in {UserCall(arg, <<prev.box.value>>, prev.st)} :
            /\ ~fv.ex
            /\ ~ret.ex
            /\ box = Maybe_of(fv.v)
            /\ fv.v \in EmptyInputs => box = Nothing
  /\ (pc \in {"map", "flatMap", "ap"} /\ prev.box = Nothing) =>
       /\ box = Nothing
       /\ st = prev.st
       /\ ~ret.ex

\* Just(1).map(() => null).map(a => [a]): the first map gave Nothing and
\* the second, which would make [null] of null, was skipped.
C22_Witness ==
  /\ pc = "map"
  /\ steps = 2
  /\ ctor = [name |-> "Just", x |-> Num(1)]
  /\ arg = wrapArr
  /\ prev.box = Nothing
  /\ box = Nothing
  /\ st.log = <<[f |-> constNull, a |-> <<Num(1)>>]>>

-----------------------------------------------------------------------------
(* SyncEffect.flatMap: a chain of flatMap over SyncEffect.of, triggered *)

\* The computations of the first effect: one that counts, one that throws,
\* one that returns a constant.
FlatMapThunks == {counter, throwing, constant(Num(5))}

\* The transforms: the second effect returns, computes or throws.
FlatMapSeconds == {fSyncOf, fSyncInc, fSyncThrow}

FlatMapSyncOf ==
  \E thunk \in FlatMapThunks : Built("SyncEffect.of", thunk, SyncEffect_of(thunk))

SyncFlatMapped == \E f \in FlatMapSeconds : Composed("flatMap", f)

NextFlatMapSync ==
  \/ FlatMapSyncOf
  \/ SyncFlatMapped
  \/ SyncTrigger

SpecFlatMapSync == InitContainers /\ [][NextFlatMapSync]_vars

\* C23: one trigger of eff.flatMap(f) is one run of eff's computation, then
\* one call of f on its result, then one trigger of the effect f returned,
\* whose result is returned.  When eff's computation throws, f is not
\* called (nothing runs after the computation) and trigger throws the same
\* value; when the second effect throws,
\* trigger throws that value.  For eff = SyncEffect.of(thunk) the calls are
\* thunk, f, the second effect's thunk, once each and in this order.
C23_FlatMapDoubleTrigger ==
  (pc = "trigger" /\ box.trigger.name = "SyncEffect_flatMapped") =>
    \E first \in {Call(box.trigger.env[2], <<Undef>>, prev.st)} :
      IF first.ex
      THEN /\ ret = first
           /\ steps = 1 => NewCalls = <<[f |-> ctor.x, a |-> <<Undef>>]>>
      ELSE \E second \in {Call(box.trigger.env[1], <<first.v>>, first.st)} :
             /\ ~second.ex
             /\ second.v.t = "SyncEffect"
             /\ ret = Call(second.v.trigger, <<>>, second.st)
             /\ steps = 1 =>
                  /\ Len(NewCalls) = 3
                  /\ NewCalls[1] = [f |-> ctor.x, a |-> <<Undef>>]
                  /\ NewCalls[2] = [f |-> box.trigger.env[1], a |-> <<first.v>>]
                  /\ NewCalls[3] = [f |-> second.v.trigger, a |-> <<>>]

\* SyncEffect.of(() => ++count).flatMap(() => SyncEffect.of(() => { throw
\* 'error'; })) triggered a second time: the counter moved and the trigger
\* threw the second effect's error.
C23_Witness ==
  /\ pc = "trigger"
  /\ steps = 1
  /\ triggers = 2
  /\ ctor.x = counter
  /\ box.trigger.name = "SyncEffect_flatMapped"
  /\ box.trigger.env[1] = fSyncThrow
  /\ st.count = 2
  /\ Len(NewCalls) = 3
  /\ ret.ex
  /\ ret.v = Str("error")

-----------------------------------------------------------------------------
(* AsyncEffect.map: a chain of maps over AsyncEffect.of / ofPromise, *)
(* triggered once                                                    *)

\* map, before the effect is triggered.
AsyncMapFirst == triggers = 0 /\ AsyncMap

NextMapAsync ==
  \/ AsyncOf
  \/ AsyncOfPromise
  \/ AsyncMapFirst
  \/ GiveReject
  \/ GiveResolve
  \/ TriggerBinary
  \/ FireTimer
  \/ RunJob

SpecMapAsync == InitContainers /\ [][NextMapAsync]_vars

RECURSIVE MapChain(_)
\* The transforms of the maps an effect's trigger was built with, the first
\* map first.
MapChain(trigger) ==
  IF trigger.name = "nary" /\ trigger.env[1].name = "AsyncEffect_map_reject"
  THEN Append(MapChain(trigger.env[1].env[2]), trigger.env[1].env[1])
  ELSE <<>>

RECURSIVE ApplyAll(_, _, _)
\* fns[n](...fns[i](v))
ApplyAll(fns, i, v) ==
  IF i > Len(fns) THEN v ELSE ApplyAll(fns, i + 1, UserCall(fns[i], <<v>>, St0).v)

\* Whether the wrapped computation or promise factory resolves, and its payload.
Resolves == IF ctor.name = "AsyncEffect.of" THEN ctor.x.env[3].s = "resolve"
            ELSE ctor.x.env[2].s = "resolve"
Payload == IF ctor.name = "AsyncEffect.of" THEN ctor.x.env[4] ELSE ctor.x.env[3]

\* The calls of the transforms.
TransformCalls == SelectSeq(st.log, LAMBDA e : e.f \in AsyncTransforms)

\* The values the original effect resolved with: the payload of its
\* computation and, where AsyncEffect.of called a function the resolve
\* callback returned, what that function called the callback with.
Resolutions ==
  <<Payload>> \o [i \in 1..Len(CallsOf("invoker")) |-> Str("again")]

-----------------------------------------------------------------------------
(* eitherToSyncEffect and eitherToAsyncEffect, and triggers of the effect *)

DoEitherToSyncEffect ==
  \E e \in ConvertedEithers :
    Converted("eitherToSyncEffect", e, eitherToSyncEffect(e, st), "of")

DoEitherToAsyncEffect ==
  \E e \in ConvertedEithers :
    Converted("eitherToAsyncEffect", e, eitherToAsyncEffect(e, st), "of")

NextEitherConvert ==
  \/ DoEitherToSyncEffect
  \/ DoEitherToAsyncEffect
  \/ SyncTrigger
  \/ AsyncTriggerAgain
  \/ GiveReject
  \/ GiveResolve
  \/ TriggerBinary

SpecEitherConvert == InitContainers /\ [][NextEitherConvert]_vars

\* C25: eitherToSyncEffect and eitherToAsyncEffect run nothing and throw
\* nothing when they convert.  Each trigger of eitherToSyncEffect(Failure(e))
\* throws e and each trigger of eitherToSyncEffect(Success(v)) returns v.
\* Each trigger of eitherToAsyncEffect(Failure(e)) calls reject with e and
\* never resolve, each trigger of eitherToAsyncEffect(Success(v)) calls
\* resolve with v and never reject, and no half of a trigger throws.
C25_EitherConversions ==
  LET failed == ctor.x.t = "Failure"
      rejected == CallsOf("onReject")
      resolved == CallsOf("onResolve")
  IN  /\ ctor.name = "eitherToSyncEffect" =>
           /\ pc = "of" => ~ret.ex /\ st = St0 /\ box.t = "SyncEffect"
           /\ pc = "trigger" =>
                ret = IF failed THEN Throw(ctor.x.value, st) ELSE Ret(ctor.x.value, st)
      /\ ctor.name = "eitherToAsyncEffect" =>
           /\ pc = "of" => ~ret.ex /\ box.t = "AsyncEffect"
           /\ pc \in {"partial", "trigger"} => ~ret.ex
           /\ triggers = 0 => st = St0
           /\ failed =>
                /\ resolved = <<>>
                /\ Len(rejected) = triggers
                /\ \A i \in 1..Len(rejected) : rejected[i].a = <<ctor.x.value>>
           /\ ~failed =>
                /\ rejected = <<>>
                /\ Len(resolved) = triggers
                /\ \A i \in 1..Len(resolved) : resolved[i].a = <<ctor.x.value>>

\* eitherToSyncEffect(Failure('a')) triggered a second time: it threw 'a' again.
C25_Witness ==
  /\ ctor.name = "eitherToSyncEffect"
  /\ ctor.x = Failure(Str("a"))
  /\ pc = "trigger"
  /\ triggers = 2
  /\ ret.ex
  /\ ret.v = Str("a")

-----------------------------------------------------------------------------
(* liftA2 and liftA3 over Maybe, Either and SyncEffect *)

\* The containers lifted over, one kind in each call.
LiftMaybes == {Nothing, Just(Num(1)), Just(Str("")), Just(Str("a"))}
LiftEithers == {Success(Num(1)), Success(Str("a")), Failure(Str("e1")), Failure(Str("e2"))}
LiftSyncs == {SyncEffect_of(constant(Num(1))), SyncEffect_of(counter)}
LiftKinds == {LiftMaybes, LiftEithers, LiftSyncs}

\* a => b => a + b and a => b => [a, b]
LiftFns == {curried(2, <<>>), pair}

\* lift(fn)(c1)...(cn), from the i-th container on.
RECURSIVE LiftCurried(_, _, _)
LiftCurried(acc, cs, i) ==
  IF i > Len(cs) THEN acc
  ELSE Then(Call(acc.v, <<cs[i]>>, acc.st), LAMBDA r : LiftCurried(r, cs, i + 1))

\* The caller called lift(fn)(c1)...(cn) or lift(fn, c1, ..., cn).
Lifted(name, lift, fn, cs) ==
  \E style \in Styles :
    /\ pc = "init"
    /\ \E r \in {IF style = "curried"
                 THEN LiftCurried(Call(lift, <<fn>>, st), cs, 1)
                 ELSE Call(lift, <<fn>> \o cs, st)} :
         /\ ret' = r
         /\ st' = r.st
         /\ box' = IF r.ex THEN [t |-> "thrown", value |-> r.v] ELSE r.v
    /\ ctor' = [name |-> name, x |-> Arr(<<fn>> \o cs)]
    /\ arg' = Str(style)
    /\ pc' = "lift"
    /\ UNCHANGED <<prev, steps, triggers, promised>>

LiftedA2 ==
  \E fn \in LiftFns, kind \in LiftKinds :
    \E c1 \in kind, c2 \in kind : Lifted("liftA2", liftA2, fn, <<c1, c2>>)

LiftedA3 ==
  \E kind \in LiftKinds :
    \E c1 \in kind, c2 \in kind, c3 \in kind :
      Lifted("liftA3", liftA3, curried(3, <<>>), <<c1, c2, c3>>)

NextLift ==
  \/ LiftedA2
  \/ LiftedA3

SpecLift == InitContainers /\ [][NextLift]_vars

\* The containers given to the lift, and the function.
LiftArgs == SubSeq(ctor.x.items, 2, Len(ctor.x.items))
LiftFn == ctor.x.items[1]

\* The position of the leftmost Nothing or Failure, or one past the last.
RECURSIVE FirstMissing(_, _)
FirstMissing(cs, i) ==
  IF i > Len(cs) \/ cs[i].t \in {"Nothing", "Failure"} THEN i
  ELSE FirstMissing(cs, i + 1)

\* f(cs[i].value)...(cs[n].value), and the calls this makes.
RECURSIVE Curry(_, _, _, _)
Curry(f, cs, i, n) ==
  IF i > n THEN f ELSE Curry(UserCall(f, <<cs[i].value>>, St0).v, cs, i + 1, n)

Applications(f, cs, n) ==
  [i \in 1..n |-> [f |-> Curry(f, cs, 1, i - 1), a |-> <<cs[i].value>>]]

\* acc.ap(cs[i])...ap(cs[n])
RECURSIVE MapAp(_, _, _)
MapAp(acc, cs, i) ==
  IF i > Len(cs) THEN acc
  ELSE Then(Method(acc.v, "ap", <<cs[i]>>, acc.st), LAMBDA r : MapAp(r, cs, i + 1))

\* C26: liftA2(fn)(c1)(c2) is c1.map(fn).ap(c2) and liftA3(fn)(c1)(c2)(c3)
\* is c1.map(fn).ap(c2).ap(c3), however the arguments are grouped.  Over
\* Maybe the result is Maybe.of(fn(x)(y)) (Maybe.of(fn(x)(y)(z))) when all
\* are Just and Nothing as soon as one is Nothing; over Either it is
\* Success(fn(x)(y)) when all are Success and else a Failure with the
\* payload of the leftmost Failure.  fn is applied to the values left of
\* the leftmost Nothing or Failure and to nothing else.
C26_Lift ==
  pc = "lift" =>
    \E cs \in {LiftArgs} :
      /\ ret = MapAp(Method(cs[1], "map", <<LiftFn>>, St0), cs, 2)
      /\ cs[1].t \in {"Nothing", "Just", "Failure", "Success"} =>
           \E k \in {FirstMissing(cs, 1)} :
             /\ ~ret.ex
             /\ st.log = Applications(LiftFn, cs, IF k > Len(cs) THEN Len(cs) ELSE k - 1)
             /\ k <= Len(cs) /\ cs[1].t \in {"Nothing", "Just"} => box = Nothing
             /\ k <= Len(cs) /\ cs[1].t \in {"Failure", "Success"} =>
                  box = Failure(cs[k].value)
             /\ k > Len(cs) /\ cs[1].t = "Just" =>
                  box = Maybe_of(Curry(LiftFn, cs, 1, Len(cs)))
             /\ k > Len(cs) /\ cs[1].t = "Success" =>
                  box = Success(Curry(LiftFn, cs, 1, Len(cs)))

\* liftA3(add3)(Success(1))(Failure('e2'))(Failure('e1')) is Failure('e2')
\* and add3 was applied to 1 only.
C26_Witness ==
  /\ pc = "lift"
  /\ ctor.name = "liftA3"
  /\ arg = Str("curried")
  /\ LiftArgs = <<Success(Num(1)), Failure(Str("e2")), Failure(Str("e1"))>>
  /\ box = Failure(Str("e2"))
  /\ Len(st.log) = 1

-----------------------------------------------------------------------------
(* mergeAsyncEffects starts every input, checked under SpecMergeReject *)

\* The computation AsyncEffect.of(computation) wraps.
ComputationOf(e) == e.trigger.env[1].env[1]

\* The calls that start a computation, in order.
Starts == CallsOf("computation")

\* C27: one trigger of mergeAsyncEffects(e1..en) starts every input once,
\* in argument order and within the trigger itself, before any timer fires
\* or promise job runs, also the inputs that stand after one that rejects
\* at once; every input runs to its end (its promise is fulfilled or
\* rejected with its payload when nothing is pending); and the merged
\* effect calls one callback once, whatever the other inputs do later.
C27_MergeStartsAll ==
  LET inputs == ctor.x.items
      n == Len(inputs)
  IN  ctor.name = "mergeAsyncEffects" /\ triggers <= 1 =>
        /\ triggers = 0 => Starts = <<>>
        /\ triggers = 1 =>
             /\ Len(Starts) = n
             /\ \A i \in 1..n : Starts[i].f = ComputationOf(inputs[i])
        /\ Len(CallsOf("onReject")) + Len(CallsOf("onResolve")) <= 1
        /\ triggers = 1 /\ Quiescent =>
             /\ Len(CallsOf("onReject")) + Len(CallsOf("onResolve")) = 1
             /\ \A i \in 1..n :
                  /\ st.promises[i].value = PayloadOf(inputs[i])
                  /\ st.promises[i].state =
                       IF OutcomeOf(inputs[i]) = "reject" THEN "rejected" ELSE "fulfilled"

\* The first input rejects at once, the second rejects and the third
\* resolves from timers: both timers fired, and reject was called once,
\* with the first input's payload.
C27_Witness ==
  /\ ctor.name = "mergeAsyncEffects"
  /\ Len(ctor.x.items) = 3
  /\ OutcomeOf(ctor.x.items[1]) = "reject" /\ TimingOf(ctor.x.items[1]) = "sync"
  /\ OutcomeOf(ctor.x.items[2]) = "reject" /\ TimingOf(ctor.x.items[2]) = "defer"
  /\ OutcomeOf(ctor.x.items[3]) = "resolve" /\ TimingOf(ctor.x.items[3]) = "defer"
  /\ PayloadOf(ctor.x.items[1]) = Str("a")
  /\ PayloadOf(ctor.x.items[2]) = Str("b")
  /\ Len(Starts) = 3
  /\ Len(CallsOf("later")) = 2
  /\ Quiescent
  /\ st.promises[2].state = "rejected"
  /\ st.promises[3].state = "fulfilled"
  /\ CallsOf("onResolve") = <<>>
  /\ Len(CallsOf("onReject")) = 1
  /\ CallsOf("onReject")[1].a = <<Str("a")>>

-----------------------------------------------------------------------------
(* AsyncEffect: a resolve callback, or a transform running inside it, that *)
(* throws                                                                  *)

ThrowingComputations ==
  {computation(style, timing, outcome, Num(1)) :
     style \in Styles, timing \in Timings, outcome \in Outcomes}

\* a => a and a => { throw 'transform failed'; }
ThrowingTransforms == {identity, thrower("first", 1, Str("transform failed"))}

\* a => AsyncEffect.of(_ => resolve => resolve([a])) and
\* a => { throw 'transform failed'; }
ThrowingFlatMapFns == {fAsyncArr, thrower("first", 1, Str("transform failed"))}

ThrowingOf ==
  \E c \in ThrowingComputations : Built("AsyncEffect.of", c, AsyncEffect_of(c))

ThrowingMap == triggers = 0 /\ \E f \in ThrowingTransforms : Composed("map", f)

ThrowingFlatMap == triggers = 0 /\ \E f \in ThrowingFlatMapFns : Composed("flatMap", f)

\* box.trigger(error => {})(() => { throw 'Unexpected success.'; }), with
\* result => {} for the second callback, or both callbacks in one call.
ThrowingTrigger ==
  \E style \in Styles, b \in {"void", "throw"} :
    /\ pc \notin {"init", "partial"}
    /\ box.t = "AsyncEffect"
    /\ triggers = 0
    /\ Evaluated("trigger", <<onReject("void"), onResolve(b)>>,
                 IF style = "binary"
                 THEN Method(box, "trigger", <<onReject("void"), onResolve(b)>>, st)
                 ELSE Triggered(box.trigger, onReject("void"), onResolve(b), st))
    /\ triggers' = triggers + 1
    /\ UNCHANGED promised

NextThrowing ==
  \/ ThrowingOf
  \/ AsyncOfPromise
  \/ ThrowingMap
  \/ ThrowingFlatMap
  \/ ThrowingTrigger
  \/ FireTimer
  \/ RunJob

SpecThrowing == InitContainers /\ [][NextThrowing]_vars

\* The calls that threw on the resolve path: of the throwing resolve
\* callback and of a throwing transform.
Thrown ==
  SelectSeq(st.log, LAMBDA e : e.f = onResolve("throw") \/ e.f.name = "thrower")

ThrownValue(e) == IF e.f.name = "thrower" THEN e.f.env[2] ELSE Str("Unexpected success.")

\* The reject callback was called once, last of all, with what was thrown
\* on the resolve path, and nothing was thrown out of the evaluation.
RoutedToReject ==
  /\ Len(Thrown) = 1
  /\ CallsOf("onReject") =
       <<[f |-> onReject("void"), a |-> <<ThrownValue(Thrown[1])>>]>>
  /\ st.log[Len(st.log)].f.name = "onReject"
  /\ st.uncaught = <<>>

\* C28: when an effect of AsyncEffect.of resolves synchronously during
\* trigger and the resolve callback, or a map / flatMap transform running
\* inside it, throws t, trigger does not throw: the reject callback is
\* called with t in the same evaluation, after the resolve path has run.
\* For an effect of ofPromise the throw is routed to the reject callback
\* as well, once the promise jobs have run.
C28_ThrowBreaksExclusivity ==
  /\ ( /\ ctor.name = "AsyncEffect.of"
       /\ ctor.x.env[2] = Str("sync")
       /\ Thrown # <<>> ) =>
       /\ RoutedToReject
       /\ pc = "trigger" => ~ret.ex
  /\ ( /\ ctor.name = "AsyncEffect.ofPromise"
       /\ Thrown # <<>>
       /\ Quiescent ) => RoutedToReject

C28_Witness ==
  /\ ctor.name = "AsyncEffect.of"
  /\ ctor.x = computation("curried", "sync", "resolve", Num(1))
  /\ steps = 0
  /\ pc = "trigger"
  /\ ~ret.ex
  /\ CallsOf("onResolve") = <<[f |-> onResolve("throw"), a |-> <<Num(1)>>]>>
  /\ CallsOf("onReject") =
       <<[f |-> onReject("void"), a |-> <<Str("Unexpected success.")>>]>>

-----------------------------------------------------------------------------
(* SyncEffect: what the wrapped function gets of the arguments of trigger  *)

\* a => a, (...args) => args.length and a => b => [a, b]
ForwardThunks == {identity, countArgs, pair}

ForwardArgs == {<<>>, <<Num(7)>>, <<Num(7), Num(8)>>}

ForwardOf ==
  \E g \in ForwardThunks :
    /\ pc = "init"
    /\ box' = SyncEffect_of(g)
    /\ ctor' = [name |-> "SyncEffect.of", x |-> g]
    /\ ret' = Ret(box', st)
    /\ pc' = "of"
    /\ UNCHANGED <<prev, arg, st, steps, triggers, promised>>

ForwardMap == triggers = 0 /\ \E f \in {identity, wrapArr} : Composed("map", f)

ForwardFlatMap == triggers = 0 /\ Composed("flatMap", fSyncOf)

ForwardAp == triggers = 0 /\ Composed("ap", SyncEffect_of(constant(Num(5))))

\* box.trigger(...a)
ForwardTrigger ==
  \E a \in ForwardArgs :
    /\ pc \notin {"init"}
    /\ box.t = "SyncEffect"
    /\ triggers < MaxTriggers
    /\ \E r \in {Method(box, "trigger", a, st)} :
         /\ ret' = r
         /\ st' = r.st
    /\ pc' = "trigger"
    /\ prev' = [box |-> box, st |-> st]
    /\ arg' = Arr(a)
    /\ triggers' = triggers + 1
    /\ UNCHANGED <<box, ctor, steps, promised>>

NextForward ==
  \/ ForwardOf
  \/ ForwardMap
  \/ ForwardFlatMap
  \/ ForwardAp
  \/ ForwardTrigger

SpecForward == InitContainers /\ [][NextForward]_vars

\* The thunk was made by flatMap or ap, or by map over such a thunk.
RECURSIVE ThroughFlatMap(_)
ThroughFlatMap(trigger) ==
  CASE trigger.name = "SyncEffect_flatMapped" -> TRUE
    [] trigger.name = "SyncEffect_mapped" -> ThroughFlatMap(trigger.env[2])
    [] OTHER -> FALSE

\* The arguments the wrapped function g was called with by the last trigger.
ReachedG == NewCalls[1].a

TriggeredForward ==
  /\ pc = "trigger"
  /\ ctor.name = "SyncEffect.of"
  /\ NewCalls # <<>>
  /\ NewCalls[1].f = ctor.x

\* C29: for eff = SyncEffect.of(g), eff.trigger(...a) calls g with all of a
\* and returns what g returns; a chain of map calls g with the first
\* argument only, and eff.map(f).trigger(a) returns f(g(a)); through flatMap
\* or ap g is called with the single argument undefined, whatever the
\* arguments of trigger are, so that (...args) => args.length counts 1.
C29_TriggerArgument ==
  /\ pc = "trigger" /\ ctor.name = "SyncEffect.of" =>
       /\ NewCalls # <<>>
       /\ NewCalls[1].f = ctor.x
  /\ TriggeredForward /\ steps = 0 =>
       /\ ReachedG = arg.items
       /\ ret = Call(ctor.x, arg.items, prev.st)
  /\ TriggeredForward /\ steps >= 1 /\ ~ThroughFlatMap(box.trigger) =>
       /\ ReachedG = <<Arg(arg.items, 1)>>
       /\ steps = 1 =>
            ret = Then(Call(ctor.x, <<Arg(arg.items, 1)>>, prev.st), LAMBDA r :
                    Call(box.trigger.env[1], <<r.v>>, r.st))
  /\ TriggeredForward /\ ThroughFlatMap(box.trigger) =>
       /\ ReachedG = <<Undef>>
       /\ ctor.x = countArgs /\ steps = 1 /\ ~ret.ex =>
            ret.v = Num(1)

\* Through flatMap or ap the wrapped function is called with no argument at all.
C29_NoArgumentAtAll ==
  TriggeredForward /\ ThroughFlatMap(box.trigger) => ReachedG = <<>>

C29_Witness ==
  /\ TriggeredForward
  /\ ctor.x = countArgs
  /\ steps = 1
  /\ box.trigger.name = "SyncEffect_flatMapped"
  /\ box.trigger.env[1] = fSyncOf
  /\ arg = Arr(<<Num(7)>>)
  /\ ReachedG = <<Undef>>
  /\ ret.v = Num(1)

-----------------------------------------------------------------------------
(* AsyncEffect: fnEffect.ap(argEffect), liftA2 and liftA3, triggered       *)

\* The computation of the k-th effect; its payload tells the effects apart.
SequencedComputations(payload) ==
  {computation(style, timing, outcome, payload) :
     style \in Styles, timing \in Timings, outcome \in Outcomes}

\* The first effect may also be AsyncEffect.of(() => { throw 'error'; }).
SequencedFirsts(payload) ==
  SequencedComputations(payload) \cup {thrower("first", 0, Str("error"))}

\* AsyncEffect.of(c1).ap(AsyncEffect.of(c2)), c1 resolving with x => x + 1
SequencedAp ==
  \E c1 \in SequencedFirsts(inc), c2 \in SequencedComputations(Num(2)) :
    Built("AsyncEffect.ap", Arr(<<c1, c2>>),
          Method(AsyncEffect_of(c1), "ap", <<AsyncEffect_of(c2)>>, St0).v)

\* liftA2(a => b => a + b)(AsyncEffect.of(c1))(AsyncEffect.of(c2))
SequencedLiftA2 ==
  \E c1 \in SequencedFirsts(Num(1)), c2 \in SequencedComputations(Num(2)) :
    Built("liftA2", Arr(<<c1, c2>>),
          NaryReduce(Call(liftA2, <<curried(2, <<>>)>>, St0),
                     <<AsyncEffect_of(c1), AsyncEffect_of(c2)>>, 1).v)

\* liftA3(a => b => c => a + b + c)(AsyncEffect.of(c1))(AsyncEffect.of(c2))(AsyncEffect.of(c3))
SequencedLiftA3 ==
  \E c1 \in SequencedFirsts(Num(1)), c2 \in SequencedComputations(Num(2)),
     c3 \in SequencedComputations(Num(3)) :
    Built("liftA3", Arr(<<c1, c2, c3>>),
          Call(liftA3, <<curried(3, <<>>), AsyncEffect_of(c1), AsyncEffect_of(c2),
                         AsyncEffect_of(c3)>>, St0).v)

NextSequenced ==
  \/ SequencedAp
  \/ SequencedLiftA2
  \/ SequencedLiftA3
  \/ GiveReject
  \/ GiveResolve
  \/ TriggerBinary
  \/ FireTimer

SpecSequenced == InitContainers /\ [][NextSequenced]_vars

SequencedRejects(c) == c.name = "thrower" \/ c.env[3].s = "reject"

SequencedPayload(c) == IF c.name = "thrower" THEN c.env[2] ELSE c.env[4]

\* The calls that started the computation c, and the calls during which c
\* handed its payload to a callback.
StartsOf(c) == {i \in 1..Len(st.log) : st.log[i].f = c}

SettlesOf(c) == {i \in 1..Len(st.log) : IsSettleOf(c, st.log[i])}

\* What the result resolves with when every effect resolves.
SequencedValue ==
  IF ctor.name = "AsyncEffect.ap"
  THEN Call(SequencedPayload(ctor.x.items[1]), <<SequencedPayload(ctor.x.items[2])>>, St0).v
  ELSE NaryReduce(Ret(curried(Len(ctor.x.items), <<>>), St0),
                  [k \in 1..Len(ctor.x.items) |-> SequencedPayload(ctor.x.items[k])], 1).v

\* The first effect that rejects, or 0.
FirstRejecting ==
  LET cs == ctor.x.items
      rejecting == {k \in 1..Len(cs) : SequencedRejects(cs[k])}
  IN  IF rejecting = {} THEN 0
      ELSE CHOOSE k \in rejecting : \A j \in rejecting : k <= j

\* C30: fnEffect.ap(argEffect), liftA2 and liftA3 over AsyncEffects run
\* their effects one after the other.  The first effect is started once by
\* each trigger; a later effect is started only after the effect before it
\* has resolved, once for each such resolution; when an effect rejects no
\* later effect is ever started, resolve is never called and reject gets
\* the payload of the rejecting effect; when all resolve, resolve gets the
\* function applied to the payloads.
C30_ApSequential ==
  LET cs == ctor.x.items
      n == Len(cs)
      failing == FirstRejecting
      rejected == CallsOf("onReject")
      resolved == CallsOf("onResolve")
  IN  ctor.name \in {"AsyncEffect.ap", "liftA2", "liftA3"} =>
        /\ st.uncaught = <<>>
        /\ Cardinality(StartsOf(cs[1])) = triggers
        /\ \A k \in 2..n :
             /\ Cardinality(StartsOf(cs[k])) <= triggers
             /\ StartsOf(cs[k]) # {} =>
                  /\ ~SequencedRejects(cs[k - 1])
                  /\ \A i \in StartsOf(cs[k]) :
                       Cardinality({j \in StartsOf(cs[k]) : j <= i})
                         <= Cardinality({j \in SettlesOf(cs[k - 1]) : j < i})
             /\ Quiescent /\ (failing = 0 \/ failing >= k) =>
                  Cardinality(StartsOf(cs[k])) = triggers
        /\ failing # 0 =>
             /\ \A k \in (failing + 1)..n : StartsOf(cs[k]) = {}
             /\ resolved = <<>>
             /\ \A i \in 1..Len(rejected) :
                  rejected[i].a = <<SequencedPayload(cs[failing])>>
             /\ Quiescent => Len(rejected) = triggers
        /\ failing = 0 =>
             /\ rejected = <<>>
             /\ \A i \in 1..Len(resolved) : resolved[i].a = <<SequencedValue>>
             /\ Quiescent => Len(resolved) = triggers

\* liftA3 whose second effect rejects from a timer after the first has
\* resolved from one: the third effect never started.
C30_Witness ==
  /\ ctor.name = "liftA3"
  /\ ctor.x.items[1].env[2].s = "defer"
  /\ ctor.x.items[2].env[2].s = "defer"
  /\ FirstRejecting = 2
  /\ triggers = 1
  /\ Quiescent
  /\ Cardinality(StartsOf(ctor.x.items[1])) = 1
  /\ Cardinality(StartsOf(ctor.x.items[2])) = 1
  /\ StartsOf(ctor.x.items[3]) = {}
  /\ \A i \in StartsOf(ctor.x.items[2]) : \E j \in SettlesOf(ctor.x.items[1]) : j < i
  /\ CallsOf("onReject")[1].a = <<Num(2)>>

====
